---- MODULE Spec2Model ----
(***************************************************************************)
(* Model of the tola-vdom diff core: the Myers/LCS sequence diff           *)
(* (src/src/algo/myers.rs) and the StableId-based tree diff                 *)
(* (src/src/algo/diff.rs), together with a client that applies the emitted  *)
(* patch operations one at a time; the StableId constructors                *)
(* (src/src/id.rs, src/src/hash.rs) with the indexing traversal             *)
(* (src/src/transform/indexer.rs); and the document cache                   *)
(* (src/src/cache.rs).                                                      *)
(*                                                                          *)
(* Indices are 0-based as in the source; a TLA+ sequence s is read at       *)
(* source index i as s[i + 1].                                              *)
(***************************************************************************)
EXTENDS Integers, Sequences, FiniteSets, TLC

VARIABLES
    pc,          \* position of the run: which call has returned
    old,         \* root element of the old document
    new,         \* root element of the new document
    config,      \* DiffConfig handed to diff_with_config
    result,      \* DiffResult returned by diff_with_config
    compared,    \* history: the (old, new) element pairs counted by elements_compared
    deepest,     \* history: the greatest value self.depth took during the diff
    dom,         \* the client's tree, patched one op at a time
    applied,     \* number of ops of result.ops applied to dom so far
    seq_old,     \* old StableId sequence handed to diff_sequences
    seq_new,     \* new StableId sequence handed to diff_sequences
    seq_result,  \* LcsResult returned by diff_sequences
    raw_old,     \* root element of a Raw document handed to the Indexer
    raw_new,     \* root element of a second Raw document handed to the Indexer
    indexed_old, \* root element of the Indexed document made from raw_old
    indexed_new, \* root element of the Indexed document made from raw_new
    elem,        \* arguments of two StableId::for_element calls
    made,        \* the StableIds the two calls returned
    pages,       \* VdomCache.pages: the entries of the map
    cache_log,   \* history: the insert, remove and clear calls, in order
    got,         \* the last VdomCache::get call and what it returned
    urls,        \* two strings handed to CacheKey::new
    keys,        \* the CacheKeys made from them
    render_config,   \* RenderConfig handed to render_patches
    patches,         \* the Patches render_patches returned
    pending,         \* AsyncPipeline.pending: the validations, in the order added
    completed,       \* history: the validations that have completed, in that order
    pipeline_result  \* what finish_fail_fast returned

diff_vars_but_pc == <<old, new, config, result, compared, deepest, dom, applied,
                      seq_old, seq_new, seq_result>>
diff_vars == <<pc, diff_vars_but_pc>>
id_vars == <<raw_old, raw_new, indexed_old, indexed_new, elem, made>>
cache_vars == <<pages, cache_log, got, urls, keys>>
aux_vars == <<render_config, patches, pending, completed, pipeline_result>>
vars == <<diff_vars, id_vars, cache_vars, aux_vars>>

-----------------------------------------------------------------------------
(* Generic helpers                                                          *)

Min(a, b) == IF a < b THEN a ELSE b
Max(a, b) == IF a > b THEN a ELSE b

\* `let v = x; F(v)`: x is evaluated once and F receives its value.
Let(x, F(_)) == CHOOSE r \in {F(v) : v \in {x}} : TRUE

\* The function f over 1..n as a sequence held by value (a Vec).
Vec(f) == <<>> \o f

\* Source index i of a Vec/slice.
At(s, i) == s[i + 1]

\* The elements of a sequence.
Range(s) == {s[i] : i \in 1..Len(s)}

\* A for-loop over the integers lo..hi in ascending order threading an
\* accumulator: acc = Step(acc, i). The range is split in halves and the
\* first half is evaluated before the second is entered, so the evaluation
\* depth is logarithmic in the length of the loop.
RECURSIVE ForRange(_, _, _, _)
ForRange(Step(_, _), acc, lo, hi) ==
    IF lo > hi THEN acc
    ELSE IF lo = hi THEN Step(acc, lo)
    ELSE Let(ForRange(Step, acc, lo, (lo + hi) \div 2),
             LAMBDA left : ForRange(Step, left, (lo + hi) \div 2 + 1, hi))

For(Step(_, _), acc, lo, hi) ==
    Let(acc, LAMBDA a : ForRange(Step, a, lo, hi))

\* A for-loop over the elements of s: acc = Step(acc, s[i]).
Fold(Step(_, _), acc, s) ==
    Let(s, LAMBDA sv : For(LAMBDA a, i : Step(a, sv[i]), acc, 1, Len(sv)))

\* s restricted to the elements satisfying Pred, in order (iter().filter()).
Filter(s, Pred(_)) ==
    Fold(LAMBDA acc, x : IF Pred(x) THEN Append(acc, x) ELSE acc, <<>>, s)

Reverse(s) == Let(s, LAMBDA sv : Vec([i \in 1..Len(sv) |-> sv[Len(sv) + 1 - i]]))

\* Stable sort of s by the strict order Less on its elements
\* (slice::sort_by_key): element i lands after every element that is smaller
\* or that is equal and earlier.
StableSort(s, Less(_, _)) ==
    Let(s, LAMBDA sv :
        LET n == Len(sv)
            Ahead(j, i) == Less(sv[j], sv[i]) \/ (~Less(sv[i], sv[j]) /\ j < i)
        IN Let(Vec([i \in 1..n |-> Cardinality({j \in 1..n : Ahead(j, i)}) + 1]),
               LAMBDA rank :
                   Vec([p \in 1..n |-> sv[CHOOSE i \in 1..n : rank[i] = p]])))

-----------------------------------------------------------------------------
(* Sequence Diff Engine: src/src/algo/myers.rs                              *)

MAX_EDIT_DISTANCE == 512
SMALL_DP_LIMIT == 8

Keep(o, n) == [kind |-> "Keep", old_idx |-> o, new_idx |-> n]
Insert(n) == [kind |-> "Insert", old_idx |-> -1, new_idx |-> n]
Delete(o) == [kind |-> "Delete", old_idx |-> o, new_idx |-> -1]
Move(o, n) == [kind |-> "Move", old_idx |-> o, new_idx |-> n]

LcsStats(k, i, d, m) == [kept |-> k, inserted |-> i, deleted |-> d, moved |-> m]
LcsResult(e, s) == [edits |-> e, stats |-> s]

\* A row that takes the smaller of the two neighbours where the ids differ.
dp_row_min(olds, news, i, prev) ==
    LET Step(row, j) ==
            Append(row, IF At(olds, i - 1) = At(news, j - 1)
                        THEN At(prev, j - 1) + 1
                        ELSE Min(At(prev, j), At(row, j - 1)))
    IN For(Step, <<0>>, 1, Len(news))

\* small_lcs_dp: one row of the DP table, dp[i][0..m], from the row above.
dp_row(olds, news, i, prev) ==
    LET Step(row, j) ==
            Append(row, IF At(olds, i - 1) = At(news, j - 1)
                        THEN At(prev, j - 1) + 1
                        ELSE Max(At(prev, j), At(row, j - 1)))
    IN For(Step, <<0>>, 1, Len(news))

\* The whole table dp[0..n][0..m] as a sequence of rows.
dp_table(olds, news) ==
    LET Step(rows, i) == Append(rows, dp_row(olds, news, i, rows[Len(rows)]))
    IN For(Step, <<Vec([j \in 1..(Len(news) + 1) |-> 0])>>, 1, Len(olds))

\* The backtracking while-loop of small_lcs_dp; the pairs come out last first.
RECURSIVE dp_backtrack(_, _, _, _, _)
dp_backtrack(olds, news, dp, i, j) ==
    IF ~(i > 0 /\ j > 0) THEN <<>>
    ELSE IF At(olds, i - 1) = At(news, j - 1)
         THEN <<<<i - 1, j - 1>>>> \o dp_backtrack(olds, news, dp, i - 1, j - 1)
    ELSE IF At(At(dp, i - 1), j) > At(At(dp, i), j - 1)
         THEN dp_backtrack(olds, news, dp, i - 1, j)
    ELSE dp_backtrack(olds, news, dp, i, j - 1)

small_lcs_dp(olds, news) ==
    Let(dp_table(olds, news),
        LAMBDA dp : Reverse(dp_backtrack(olds, news, dp, Len(olds), Len(news))))

\* One round d of the forward pass of myers_core on the snapshot v taken
\* before the round. A round writes only the diagonals k of d's parity and
\* reads only their neighbours k-1, k+1, which it never writes, so the value
\* the loop computes for each k depends on v alone. The loop leaves the round
\* (break 'outer) at the first k, in ascending order, that reaches the corner.
myers_x(olds, news, v, d, offset, k) ==
    LET n == Len(olds)
        m == Len(news)
        kk == k + offset
        x0 == IF k = -d \/ (k # d /\ At(v, kk - 1) < At(v, kk + 1))
              THEN At(v, kk + 1)        \* insert: x stays same, y increases
              ELSE At(v, kk - 1) + 1    \* delete: x increases
        y0 == x0 - k
        Runs(t) == x0 + t < n /\ y0 + t < m /\ At(olds, x0 + t) = At(news, y0 + t)
        \* the snake: the while-loop stops at the first t where its guard fails
        snake == CHOOSE t \in 0..Max(0, Min(n - x0, m - y0)) :
                    ~Runs(t) /\ \A u \in 0..(t - 1) : Runs(u)
    IN [x |-> x0 + snake, y |-> y0 + snake]

myers_round(olds, news, v, d, offset) ==
    LET n == Len(olds)
        m == Len(news)
        InRound(k) == -d <= k /\ k <= d /\ (k + d) % 2 = 0
    IN Let(Vec([i \in 1..Len(v) |->
                  IF InRound((i - 1) - offset)
                  THEN myers_x(olds, news, v, d, offset, (i - 1) - offset).x
                  ELSE v[i]]),
           LAMBDA all :
               Let({k \in (-d)..d : InRound(k) /\ At(all, k + offset) >= n
                                               /\ At(all, k + offset) - k >= m},
                   LAMBDA Hits :
                       [reached |-> Hits # {},
                        v |-> IF Hits = {} THEN all
                              ELSE Let(CHOOSE k \in Hits : \A h \in Hits : k <= h,
                                       LAMBDA last :
                                           Vec([i \in 1..Len(v) |->
                                                  IF (i - 1) - offset <= last
                                                  THEN all[i] ELSE v[i]]))]))

\* backtrack: one iteration of the loop over the trace, at round d.
backtrack_step(trace, olds, news, offset, st, d) ==
    IF st.done THEN st
    ELSE
    LET v == At(trace, d)
        x == st.x
        y == st.y
        k == x - y
        kk == k + offset
        prev_k == IF d = 0 THEN 0
                  ELSE IF k = -d \/ (k # d /\ At(v, kk - 1) < At(v, kk + 1))
                       THEN k + 1       \* came from insert
                       ELSE k - 1       \* came from delete
        prev_kk == prev_k + offset
        prev_x == IF d = 0 THEN 0 ELSE At(v, prev_kk)
        prev_y == prev_x - prev_k
        \* matches along the snake: the while-loop runs t times
        t == Max(0, Min(x - prev_x, y - prev_y))
        found == Filter(Vec([i \in 1..t |-> <<x - i, y - i>>]),
                        LAMBDA p : At(olds, p[1]) = At(news, p[2]))
        x2 == IF d > 0 /\ prev_k < k THEN prev_x ELSE x - t
        y2 == IF d > 0 /\ ~(prev_k < k) THEN prev_y ELSE y - t
    IN [x |-> x2, y |-> y2, lcs |-> st.lcs \o found, done |-> (x2 = 0 /\ y2 = 0)]

backtrack(trace, olds, news, n, m, offset) ==
    LET last == Len(trace) - 1
        Step(st, i) == backtrack_step(trace, olds, news, offset, st, last - i)
    IN Reverse(For(Step, [x |-> n, y |-> m, lcs |-> <<>>, done |-> FALSE], 0, last).lcs)

\* The forward pass of myers_core: one iteration of `for d in 0..=max_d`.
myers_forward_step(olds, news, offset, st, d) ==
    IF st.status # "run" THEN st
    ELSE IF d > MAX_EDIT_DISTANCE THEN [st EXCEPT !.status = "abort"]
    ELSE Let(myers_round(olds, news, st.v, d, offset),
             LAMBDA r : [v |-> r.v,
                         trace |-> Append(st.trace, st.v),
                         status |-> IF r.reached THEN "found" ELSE "run"])

\* The forward pass as a whole: the trace, and how the loop ended.
myers_forward(olds, news) ==
    LET max_d == Len(olds) + Len(news)
        Step(st, d) == myers_forward_step(olds, news, max_d, st, d)
    IN For(Step,
           [v |-> Vec([i \in 1..(2 * max_d + 1) |-> 0]), trace |-> <<>>, status |-> "run"],
           0, max_d)

myers_core(olds, news) ==
    LET n == Len(olds)
        m == Len(news)
    IN IF n = 0 \/ m = 0 THEN <<>>
       ELSE IF n <= SMALL_DP_LIMIT /\ m <= SMALL_DP_LIMIT THEN small_lcs_dp(olds, news)
       ELSE Let(myers_forward(olds, news),
                LAMBDA fin : IF fin.status = "abort" THEN <<>>
                             ELSE backtrack(fin.trace, olds, news, n, m, n + m))

\* A prefix scan that runs to the end of the shorter sequence whatever the ids.
common_prefix_len_blind(olds, news) == Min(Len(olds), Len(news))

common_prefix_len(olds, news) ==
    LET n == Len(olds)
        m == Len(news)
        Runs(p) == p < n /\ p < m /\ At(olds, p) = At(news, p)
    IN CHOOSE p \in 0..Min(n, m) : ~Runs(p) /\ \A q \in 0..(p - 1) : Runs(q)

common_suffix_len(olds, news, prefix_len) ==
    LET n == Len(olds)
        m == Len(news)
        Runs(s) == /\ s < n - prefix_len
                   /\ s < m - prefix_len
                   /\ At(olds, n - 1 - s) = At(news, m - 1 - s)
    IN CHOOSE s \in 0..Min(n - prefix_len, m - prefix_len) :
          ~Runs(s) /\ \A q \in 0..(s - 1) : Runs(q)

\* The middle sections myers_lcs hands to myers_core.
middle(s, prefix_len, suffix_len) == SubSeq(s, prefix_len + 1, Len(s) - suffix_len)

myers_lcs(olds, news) ==
    LET n == Len(olds)
        m == Len(news)
    IN Let(common_prefix_len(olds, news), LAMBDA prefix_len :
       Let(common_suffix_len(olds, news, prefix_len), LAMBDA suffix_len :
       Let(middle(olds, prefix_len, suffix_len), LAMBDA old_mid :
       Let(middle(news, prefix_len, suffix_len), LAMBDA new_mid :
       Let(IF old_mid # <<>> /\ new_mid # <<>> THEN myers_core(old_mid, new_mid) ELSE <<>>,
           LAMBDA mid_lcs :
               Vec([i \in 1..prefix_len |-> <<i - 1, i - 1>>])
               \o Vec([i \in 1..Len(mid_lcs) |->
                         <<mid_lcs[i][1] + prefix_len, mid_lcs[i][2] + prefix_len>>])
               \o Vec([i \in 1..suffix_len |->
                         <<n - suffix_len + (i - 1), m - suffix_len + (i - 1)>>]))))))

\* Whether myers_core gives up on the middle sections of the two sequences:
\* its forward pass leaves through `if d > MAX_EDIT_DISTANCE { return Vec::new() }`.
myers_aborts(olds, news) ==
    Let(common_prefix_len(olds, news), LAMBDA prefix_len :
    Let(common_suffix_len(olds, news, prefix_len), LAMBDA suffix_len :
    Let(middle(olds, prefix_len, suffix_len), LAMBDA old_mid :
    Let(middle(news, prefix_len, suffix_len), LAMBDA new_mid :
        /\ old_mid # <<>> /\ new_mid # <<>>
        /\ ~(Len(old_mid) <= SMALL_DP_LIMIT /\ Len(new_mid) <= SMALL_DP_LIMIT)
        /\ myers_forward(old_mid, new_mid).status = "abort"))))

\* FxHashMap<StableId, usize> collected from enumerate(): a later index
\* overwrites an earlier one under the same id.
index_map_get(s, id) ==
    CHOOSE i \in 0..(Len(s) - 1) :
        At(s, i) = id /\ \A j \in (i + 1)..(Len(s) - 1) : At(s, j) # id

\* A map that holds no id.
index_map_contains_never(s, id) == FALSE

index_map_contains(s, id) == \E i \in 1..Len(s) : s[i] = id

\* The sort key of extract_edits.
edit_key(e) ==
    IF e.kind = "Keep" THEN <<e.new_idx, 0>>
    ELSE IF e.kind = "Insert" THEN <<e.new_idx, 1>>
    ELSE IF e.kind = "Delete" THEN <<e.old_idx, 2>>
    ELSE <<e.new_idx, 3>>

edit_less(a, b) ==
    \/ edit_key(a)[1] < edit_key(b)[1]
    \/ edit_key(a)[1] = edit_key(b)[1] /\ edit_key(a)[2] < edit_key(b)[2]

count_kind(edits, kind) == Cardinality({i \in 1..Len(edits) : edits[i].kind = kind})

extract_edits(olds, news, lcs) ==
    Let({lcs[i][1] : i \in 1..Len(lcs)}, LAMBDA lcs_old_indices :
    Let({lcs[i][2] : i \in 1..Len(lcs)}, LAMBDA lcs_new_indices :
    LET keeps == Vec([i \in 1..Len(lcs) |-> Keep(lcs[i][1], lcs[i][2])])
        OldStep(acc, old_idx) ==
            IF old_idx \in lcs_old_indices THEN acc
            ELSE IF index_map_contains(news, At(olds, old_idx))
                 THEN (IF index_map_get(news, At(olds, old_idx)) \notin lcs_new_indices
                       THEN Append(acc, Move(old_idx, index_map_get(news, At(olds, old_idx))))
                       ELSE acc)
                 ELSE Append(acc, Delete(old_idx))
        NewStep(acc, new_idx) ==
            IF new_idx \in lcs_new_indices THEN acc
            ELSE IF ~index_map_contains(olds, At(news, new_idx))
                 THEN Append(acc, Insert(new_idx))
                 ELSE acc
    IN Let(For(NewStep, For(OldStep, keeps, 0, Len(olds) - 1), 0, Len(news) - 1),
           LAMBDA edits :
               LcsResult(StableSort(edits, edit_less),
                         LcsStats(count_kind(edits, "Keep"), count_kind(edits, "Insert"),
                                  count_kind(edits, "Delete"), count_kind(edits, "Move"))))))

diff_sequences(olds, news) ==
    IF olds = <<>> /\ news = <<>> THEN LcsResult(<<>>, LcsStats(0, 0, 0, 0))
    ELSE IF olds = <<>>
         THEN LcsResult(Vec([i \in 1..Len(news) |-> Insert(i - 1)]),
                        LcsStats(0, Len(news), 0, 0))
    ELSE IF news = <<>>
         THEN LcsResult(Vec([i \in 1..Len(olds) |-> Delete(i - 1)]),
                        LcsStats(0, 0, Len(olds), 0))
    ELSE Let(myers_lcs(olds, news), LAMBDA lcs : extract_edits(olds, news, lcs))

-----------------------------------------------------------------------------
(* Tree nodes, anchors and patch operations: src/src/node, src/src/algo/diff.rs *)

\* Option<T>: None is the empty sequence, Some(x) the sequence <<x>>.
None == <<>>
Some(x) == <<x>>

\* Node::Element and Node::Text. An element's id is the StableId of its
\* extension; the diff never reads a text node's id.
Element(id, tag, attrs, children) ==
    [kind |-> "element", id |-> id, tag |-> tag, attrs |-> attrs,
     children |-> children, content |-> ""]
\* Text::new: TextKind::Escaped.
Text(content) ==
    [kind |-> "text", id |-> 0, tag |-> "", attrs |-> <<>>,
     children |-> <<>>, content |-> content, text_kind |-> "Escaped"]

\* Text::raw: TextKind::Raw.
TextRaw(content) == [Text(content) EXCEPT !.text_kind = "Raw"]

IsElement(n) == n.kind = "element"
IsText(n) == n.kind = "text"

\* A lookup that finds no attribute.
get_attr_absent(e, name) == None

\* Element::get_attr: the value of the first attribute of that name.
get_attr(e, name) ==
    LET hits == {i \in 1..Len(e.attrs) : e.attrs[i][1] = name}
    IN IF hits = {} THEN None
       ELSE Some(e.attrs[CHOOSE i \in hits : \A j \in hits : i <= j][2])

After(id) == [kind |-> "After", id |-> id]
Before(id) == [kind |-> "Before", id |-> id]
FirstChildOf(id) == [kind |-> "FirstChildOf", id |-> id]
LastChildOf(id) == [kind |-> "LastChildOf", id |-> id]

\* A Replace that carries the element without its children.
OpReplace_shallow(target, element) ==
    [op |-> "Replace", target |-> target,
     element |-> [element EXCEPT !.children = <<>>]]

OpReplace(target, element) ==
    [op |-> "Replace", target |-> target, element |-> element]
OpUpdateText(target, text) ==
    [op |-> "UpdateText", target |-> target, text |-> text]
OpReplaceChildren(target, children, is_svg) ==
    [op |-> "ReplaceChildren", target |-> target, children |-> children,
     is_svg |-> is_svg]
OpRemove(target) == [op |-> "Remove", target |-> target]
OpInsert(anchor, node) == [op |-> "Insert", anchor |-> anchor, node |-> node]
OpMove(target, to) == [op |-> "Move", target |-> target, to |-> to]
OpUpdateAttrs(target, changes) ==
    [op |-> "UpdateAttrs", target |-> target, changes |-> changes]

\* PatchOp::target
op_target(o) == IF o.op = "Insert" THEN o.anchor.id ELSE o.target

DEFAULT_MAX_DIFF_DEPTH == 500
DEFAULT_MAX_OPS == 2000

DiffConfig(max_depth, max_ops) == [max_depth |-> max_depth, max_ops |-> max_ops]
DefaultConfig == DiffConfig(DEFAULT_MAX_DIFF_DEPTH, DEFAULT_MAX_OPS)

DiffStats ==
    [elements_compared |-> 0, text_nodes_compared |-> 0, nodes_kept |-> 0,
     nodes_moved |-> 0, nodes_replaced |-> 0, text_updates |-> 0,
     attr_updates |-> 0]

-----------------------------------------------------------------------------
(* Tree Diff Engine: src/src/algo/diff.rs, DiffContext                      *)

\* DiffContext::new. Two fields are histories the source does not keep:
\* `compared`, the element pairs counted by stats.elements_compared (the
\* source keeps only the count), and `deepest`, the greatest value of depth.
\* `assert_failed` tells that a debug_assert!(false, ..) has been passed: a
\* build with debug assertions has panicked there, and the other fields are
\* what a build without them goes on to compute.
NewContext(cfg) ==
    [ops |-> <<>>, depth |-> 0, should_reload |-> FALSE, reload_reason |-> None,
     stats |-> DiffStats, config |-> cfg, compared |-> <<>>, deepest |-> 0,
     assert_failed |-> FALSE]

into_result(ctx) ==
    [ops |-> ctx.ops, should_reload |-> ctx.should_reload,
     reload_reason |-> ctx.reload_reason, stats |-> ctx.stats]

should_abort(ctx) ==
    \/ ctx.should_reload
    \/ Len(ctx.ops) > ctx.config.max_ops
    \/ ctx.depth > ctx.config.max_depth

push(ctx, o) == [ctx EXCEPT !.ops = Append(@, o)]
bump(ctx, counter) == [ctx EXCEPT !.stats[counter] = @ + 1]

\* self.depth += 1 and self.depth -= 1 around the descent into the children.
descend(ctx) == [ctx EXCEPT !.depth = @ + 1, !.deepest = Max(@, ctx.depth + 1)]
ascend(ctx) == [ctx EXCEPT !.depth = @ - 1]

\* No child list counts as a single text child.
get_single_text_child_none(children) == None

get_single_text_child(children) ==
    IF Len(children) = 1 /\ IsText(children[1]) THEN Some(children[1].content)
    ELSE None

\* get_node_stable_id: a text node falls back to a hash of its content.
get_node_stable_id(node) ==
    IF IsElement(node) THEN node.id ELSE <<"hash", node.content>>

RECURSIVE svg_subtrees_equal(_, _)
svg_subtrees_equal(olds, news) ==
    /\ Len(olds) = Len(news)
    /\ \A i \in 1..Len(olds) :
          LET o == olds[i]
              n == news[i]
          IN IF IsText(o) /\ IsText(n) THEN o.content = n.content
             ELSE IF IsElement(o) /\ IsElement(n)
                  THEN /\ o.tag = n.tag
                       /\ o.attrs = n.attrs
                       /\ o.id = n.id
                       /\ svg_subtrees_equal(o.children, n.children)
             ELSE FALSE

\* The attribute changes diff_attrs collects: set or changed in new, then
\* removed from old.
\* No attribute is reported.
attr_changes_none(olde, newe) == <<>>

attr_changes(olde, newe) ==
    Let(Filter(newe.attrs, LAMBDA a : get_attr(olde, a[1]) # Some(a[2])), LAMBDA set :
    Let(Filter(olde.attrs, LAMBDA a : get_attr(newe, a[1]) = None), LAMBDA gone :
        Vec([i \in 1..Len(set) |-> <<set[i][1], Some(set[i][2])>>])
        \o Vec([i \in 1..Len(gone) |-> <<gone[i][1], None>>])))

\* An attribute diff without the link and script cases.
diff_attrs_patch_only(ctx, olde, newe) ==
    IF should_abort(ctx) THEN ctx
    ELSE Let(attr_changes(olde, newe), LAMBDA changes :
        IF changes = <<>> THEN ctx
        ELSE bump(push(ctx, OpUpdateAttrs(olde.id, changes)), "attr_updates"))

diff_attrs(ctx, olde, newe) ==
    IF should_abort(ctx) THEN ctx
    ELSE Let(attr_changes(olde, newe), LAMBDA changes :
        LET href_changed == olde.tag = "link"
                            /\ \E i \in 1..Len(changes) : changes[i][1] = "href"
            src_changed == olde.tag = "script"
                           /\ \E i \in 1..Len(changes) : changes[i][1] = "src"
        IN IF changes = <<>> THEN ctx
           ELSE IF href_changed
                THEN bump(push(ctx, OpReplace(olde.id, newe)), "nodes_replaced")
           ELSE IF src_changed
                THEN [ctx EXCEPT !.should_reload = TRUE,
                                 !.reload_reason = Some("script src changed")]
           ELSE bump(push(ctx, OpUpdateAttrs(olde.id, changes)), "attr_updates"))

\* compute_anchor: after the nearest element before new_idx, else first child.
compute_anchor(new_idx, new_children, parent_id) ==
    LET before == {i \in 0..(new_idx - 1) : IsElement(At(new_children, i))}
    IN IF before = {} THEN FirstChildOf(parent_id)
       ELSE After(At(new_children, CHOOSE i \in before : \A j \in before : j <= i).id)

\* insert_all_children: the loop's state is the context and last_element_id.
\* A `return` on should_abort leaves the remaining iterations without effect,
\* and should_abort stays true once the loop has met it.
insert_all_children(ctx, children, parent_id) ==
    LET Step(st, child) ==
            IF should_abort(st.ctx) THEN st
            ELSE [ctx |-> push(st.ctx,
                               OpInsert(IF st.last = None THEN FirstChildOf(parent_id)
                                        ELSE After(st.last[1]),
                                        child)),
                  last |-> IF IsElement(child) THEN Some(child.id) ELSE st.last]
    IN Fold(Step, [ctx |-> ctx, last |-> None], children).ctx

remove_all_element_children(ctx, children) ==
    LET Step(c, child) ==
            IF should_abort(c) THEN c
            ELSE IF IsElement(child) THEN push(c, OpRemove(child.id))
            ELSE c
    IN Fold(Step, ctx, children)

children_structure_matches(olds, news) ==
    /\ Len(olds) = Len(news)
    /\ \A i \in 1..Len(olds) :
          \/ IsElement(olds[i]) /\ IsElement(news[i])
          \/ IsText(olds[i]) /\ IsText(news[i])

RECURSIVE diff_element(_, _, _)
RECURSIVE diff_children(_, _, _, _, _)
RECURSIVE diff_element_children(_, _, _, _)
RECURSIVE diff_mixed_children(_, _, _, _, _)
RECURSIVE diff_nodes(_, _, _)

\* debug_assert!(false, ..)
debug_assert_false(ctx) == [ctx EXCEPT !.assert_failed = TRUE]

diff_nodes(ctx, oldn, newn) ==
    IF should_abort(ctx) THEN ctx
    ELSE IF IsElement(oldn) /\ IsElement(newn) THEN diff_element(ctx, oldn, newn)
    ELSE IF IsText(oldn) /\ IsText(newn)
         THEN Let(bump(ctx, "text_nodes_compared"), LAMBDA c :
                  IF oldn.content # newn.content
                  THEN bump(debug_assert_false(c), "text_updates")
                  ELSE c)
    ELSE debug_assert_false(ctx)

diff_mixed_children(ctx, olds, news, parent_id, parent_tag) ==
    LET is_svg == parent_tag = "svg"
        text_changed == \E i \in 1..Len(olds) :
                            /\ IsText(olds[i]) /\ IsText(news[i])
                            /\ olds[i].content # news[i].content
        Step(c, i) == diff_nodes(c, olds[i], news[i])
    IN IF children_structure_matches(olds, news)
       THEN IF text_changed
            THEN bump(push(ctx, OpReplaceChildren(parent_id, news, is_svg)),
                      "text_updates")
            ELSE For(Step, ctx, 1, Len(olds))
       ELSE bump(push(ctx, OpReplaceChildren(parent_id, news, is_svg)),
                 "nodes_replaced")

\* The edits of one kind, in the order of the edit list (the `match edit` loop).
edits_of(edits, kind) == Filter(edits, LAMBDA e : e.kind = kind)

move_less(a, b) == a.new_idx < b.new_idx

\* 1. Remove deleted elements
remove_deleted(ctx, old_ids, deletes) ==
    LET Step(c, e) ==
            IF should_abort(c) THEN c
            ELSE push(c, OpRemove(At(old_ids, e.old_idx)))
    IN Fold(Step, ctx, deletes)

\* 2. Apply moves
apply_moves(ctx, old_ids, news, parent_id, moves) ==
    LET Step(c, e) ==
            IF should_abort(c) THEN c
            ELSE bump(push(c, OpMove(At(old_ids, e.old_idx),
                                     compute_anchor(e.new_idx, news, parent_id))),
                      "nodes_moved")
    IN Fold(Step, ctx, moves)

\* 3. Insert new elements
insert_new(ctx, news, parent_id, inserts) ==
    LET Step(c, e) ==
            IF should_abort(c) THEN c
            ELSE push(c, OpInsert(compute_anchor(e.new_idx, news, parent_id),
                                  At(news, e.new_idx)))
    IN Fold(Step, ctx, inserts)

\* The three loops in the opposite order: inserts, moves, removes.
list_ops_inserts_first(ctx, old_ids, news, parent_id, deletes, moves, inserts) ==
    Let(insert_new(ctx, news, parent_id, inserts), LAMBDA c1 :
    Let(apply_moves(c1, old_ids, news, parent_id, moves), LAMBDA c2 :
        remove_deleted(c2, old_ids, deletes)))

\* The ops of one sibling list, in the order the three loops push them.
list_ops(ctx, old_ids, news, parent_id, deletes, moves, inserts) ==
    Let(remove_deleted(ctx, old_ids, deletes), LAMBDA c1 :
    Let(apply_moves(c1, old_ids, news, parent_id, moves), LAMBDA c2 :
        insert_new(c2, news, parent_id, inserts)))

\* old.iter().map(get_node_stable_id).collect()
stable_ids(nodes) == Vec([i \in 1..Len(nodes) |-> get_node_stable_id(nodes[i])])

diff_element_children(ctx, olds, news, parent_id) ==
    Let(stable_ids(olds), LAMBDA old_ids :
    Let(stable_ids(news), LAMBDA new_ids :
    Let(diff_sequences(old_ids, new_ids), LAMBDA lcs_result :
    \* moves.sort_unstable_by_key(new_idx); inserts.sort_unstable()
    Let(StableSort(edits_of(lcs_result.edits, "Move"), move_less), LAMBDA moves :
    Let(StableSort(edits_of(lcs_result.edits, "Insert"), move_less), LAMBDA inserts :
    Let(list_ops(ctx, old_ids, news, parent_id,
                 edits_of(lcs_result.edits, "Delete"), moves, inserts), LAMBDA c3 :
        \* 4. Recursively diff kept and moved elements
        LET Step(c, e) == diff_nodes(c, At(olds, e.old_idx), At(news, e.new_idx))
        IN Fold(Step, c3, edits_of(lcs_result.edits, "Keep") \o moves)))))))

diff_children(ctx, olds, news, parent_id, parent_tag) ==
    IF should_abort(ctx) THEN ctx
    ELSE IF olds = <<>> /\ news = <<>> THEN ctx
    ELSE IF parent_tag = "svg"
         THEN IF ~svg_subtrees_equal(olds, news)
              THEN bump(push(ctx, OpReplaceChildren(parent_id, news, TRUE)),
                        "nodes_replaced")
              ELSE ctx
    ELSE IF olds = <<>> THEN insert_all_children(ctx, news, parent_id)
    ELSE IF news = <<>> THEN remove_all_element_children(ctx, olds)
    ELSE IF (\A i \in 1..Len(olds) : ~IsText(olds[i]))
            /\ (\A i \in 1..Len(news) : ~IsText(news[i]))
         THEN diff_element_children(ctx, olds, news, parent_id)
    ELSE diff_mixed_children(ctx, olds, news, parent_id, parent_tag)

\* The single-text-child fast path of diff_element: the context after it,
\* or None when no arm of the match applies.
text_fast_path(ctx, olde, newe) ==
    LET old_single_text == get_single_text_child(olde.children)
        new_single_text == get_single_text_child(newe.children)
    IN IF olde.tag = "svg" THEN None
       ELSE IF old_single_text # None /\ new_single_text # None
            THEN Some(bump(IF old_single_text[1] # new_single_text[1]
                           THEN bump(push(ctx, OpUpdateText(olde.id, new_single_text[1])),
                                     "text_updates")
                           ELSE ctx,
                           "nodes_kept"))
       ELSE IF old_single_text # None /\ new_single_text = None /\ newe.children = <<>>
            THEN Some(bump(bump(push(ctx, OpUpdateText(olde.id, "")),
                                "text_updates"), "nodes_kept"))
       ELSE IF old_single_text = None /\ new_single_text # None /\ olde.children = <<>>
            THEN Some(bump(bump(push(ctx, OpUpdateText(olde.id, new_single_text[1])),
                                "text_updates"), "nodes_kept"))
       ELSE None

diff_element(ctx, olde, newe) ==
    IF should_abort(ctx) THEN ctx
    ELSE
    Let([bump(ctx, "elements_compared") EXCEPT
            !.compared = Append(@, <<olde, newe>>)], LAMBDA c0 :
        IF olde.tag # newe.tag
        THEN bump(push(c0, OpReplace(olde.id, newe)), "nodes_replaced")
        ELSE
        Let(diff_attrs(c0, olde, newe), LAMBDA c1 :
        Let(text_fast_path(c1, olde, newe), LAMBDA fast :
            IF fast # None THEN fast[1]
            ELSE
            Let(diff_children(descend(c1),
                              olde.children, newe.children, olde.id, olde.tag),
                LAMBDA c2 : bump(ascend(c2), "nodes_kept")))))

\* diff_with_config on the documents' roots: the context when the descent
\* has returned.
diff_context(old_root, new_root, cfg) == diff_element(NewContext(cfg), old_root, new_root)

diff_with_config(old_root, new_root, cfg) == into_result(diff_context(old_root, new_root, cfg))

\* diff: diff_with_config under DiffConfig::default().
diff(old_root, new_root) == diff_with_config(old_root, new_root, DefaultConfig)

-----------------------------------------------------------------------------
(* The client: applying one patch operation to a tree (patch protocol)      *)

\* The path (child indices from the root) of the first element, in document
\* order, that carries the id; None when no element does.
RECURSIVE find_path(_, _)
find_path(node, id) ==
    IF IsElement(node) /\ node.id = id THEN Some(<<>>)
    ELSE LET hits == {i \in 1..Len(node.children) :
                         find_path(node.children[i], id) # None}
         IN IF hits = {} THEN None
            ELSE LET i == CHOOSE h \in hits : \A g \in hits : h <= g
                 IN Some(<<i>> \o find_path(node.children[i], id)[1])

present(root, id) == find_path(root, id) # None

RECURSIVE node_at(_, _)
node_at(node, path) ==
    IF path = <<>> THEN node ELSE node_at(node.children[path[1]], Tail(path))

\* The tree with the node at path replaced by F(node).
RECURSIVE update_at(_, _, _)
update_at(F(_), node, path) ==
    IF path = <<>> THEN F(node)
    ELSE [node EXCEPT !.children[path[1]] = update_at(F, @, Tail(path))]

Front(s) == SubSeq(s, 1, Len(s) - 1)
insert_child(children, i, n) == SubSeq(children, 1, i) \o <<n>> \o SubSeq(children, i + 1, Len(children))
remove_child(children, i) == SubSeq(children, 1, i - 1) \o SubSeq(children, i + 1, Len(children))

\* Whether the anchor names a place of the tree: its element is present, and
\* for a sibling anchor it is not the root.
anchor_valid(root, anchor) ==
    /\ present(root, anchor.id)
    /\ anchor.kind \in {"After", "Before"} => find_path(root, anchor.id)[1] # <<>>

\* node placed at the anchor (insertAdjacentElement / prepend / append).
place(root, anchor, n) ==
    IF ~anchor_valid(root, anchor) THEN root
    ELSE LET path == find_path(root, anchor.id)[1]
         IN IF anchor.kind = "FirstChildOf"
            THEN update_at(LAMBDA e : [e EXCEPT !.children = <<n>> \o @], root, path)
            ELSE IF anchor.kind = "LastChildOf"
            THEN update_at(LAMBDA e : [e EXCEPT !.children = Append(@, n)], root, path)
            ELSE LET i == path[Len(path)]
                     at == IF anchor.kind = "After" THEN i ELSE i - 1
                 IN update_at(LAMBDA e : [e EXCEPT !.children = insert_child(@, at, n)],
                              root, Front(path))

\* The tree without the element of that id (the root cannot be detached).
detach(root, id) ==
    LET found == find_path(root, id)
    IN IF found = None \/ found = Some(<<>>) THEN root
       ELSE update_at(LAMBDA e : [e EXCEPT !.children =
                                     remove_child(@, found[1][Len(found[1])])],
                      root, Front(found[1]))

\* setAttribute / removeAttribute for one change of an UpdateAttrs op.
apply_attr(attrs, change) ==
    LET hits == {i \in 1..Len(attrs) : attrs[i][1] = change[1]}
    IN IF change[2] = None
       THEN Filter(attrs, LAMBDA a : a[1] # change[1])
       ELSE IF hits = {} THEN Append(attrs, <<change[1], change[2][1]>>)
       ELSE Vec([i \in 1..Len(attrs) |->
                   IF i \in hits THEN <<change[1], change[2][1]>> ELSE attrs[i]])

apply_op(root, o) ==
    IF o.op = "Insert" THEN place(root, o.anchor, o.node)
    ELSE IF o.op = "Move"
         THEN IF ~present(root, o.target) THEN root
              ELSE LET n == node_at(root, find_path(root, o.target)[1])
                       rest == detach(root, o.target)
                   IN IF anchor_valid(rest, o.to) THEN place(rest, o.to, n) ELSE root
    ELSE IF ~present(root, o.target) THEN root
    ELSE IF o.op = "Remove" THEN detach(root, o.target)
    ELSE LET path == find_path(root, o.target)[1]
         IN IF o.op = "Replace" THEN update_at(LAMBDA e : o.element, root, path)
            ELSE IF o.op = "UpdateText"
            THEN update_at(LAMBDA e : [e EXCEPT !.children =
                                   IF o.text = "" THEN <<>> ELSE <<Text(o.text)>>],
                           root, path)
            ELSE IF o.op = "ReplaceChildren"
            THEN update_at(LAMBDA e : [e EXCEPT !.children = o.children], root, path)
            ELSE update_at(LAMBDA e : [e EXCEPT !.attrs = Fold(apply_attr, @, o.changes)],
                           root, path)

\* What a tree shows: tags, attributes by name, text contents and child order.
RECURSIVE shape(_)
shape(node) ==
    [kind |-> node.kind, tag |-> node.tag, content |-> node.content,
     attrs |-> Range(node.attrs),
     children |-> Vec([i \in 1..Len(node.children) |-> shape(node.children[i])])]

-----------------------------------------------------------------------------
(* Inputs of the sequence diff                                              *)

MaxSeqLen == 3
LongLen == 10
SeqIds == {1, 2, 3}

\* Every sequence over SeqIds of length at most MaxSeqLen, repeats included.
RECURSIVE SeqsUpTo(_, _)
SeqsUpTo(S, n) ==
    IF n = 0 THEN {<<>>}
    ELSE LET shorter == SeqsUpTo(S, n - 1)
         IN shorter \cup {Append(s, x) : s \in {t \in shorter : Len(t) = n - 1}, x \in S}

ShortSeqs == SeqsUpTo(SeqIds, MaxSeqLen)

\* Long sequences, for the Myers path (a middle section longer than 8):
\* the base 11, 12, ..., and the base with two positions exchanged, with a
\* block rotated to the front, with one element replaced by a fresh id, and
\* with one id taken twice.
LongBase == Vec([i \in 1..LongLen |-> 10 + i])
Swapped(s, i, j) == [s EXCEPT ![i] = s[j], ![j] = s[i]]
Rotated(s, r) == SubSeq(s, r + 1, Len(s)) \o SubSeq(s, 1, r)
Replaced(s, i) == [s EXCEPT ![i] = 99]
Dropped(s, i) == SubSeq(s, 1, i - 1) \o SubSeq(s, i + 1, Len(s))
Doubled(s, i, j) == [s EXCEPT ![i] = s[j]]

LongSeqs ==
    {LongBase}
    \cup {Swapped(LongBase, i, j) : i \in {1, 2}, j \in {LongLen - 1, LongLen}}
    \cup {Rotated(LongBase, r) : r \in 1..3}
    \cup {Replaced(Swapped(LongBase, 1, LongLen), i) : i \in {1, 5}}
    \cup {Dropped(Rotated(LongBase, 1), i) : i \in {2, 6}}
    \cup {Doubled(LongBase, 3, 7), Doubled(Rotated(LongBase, 2), 1, 6)}

SeqInputs ==
    {<<a, b>> : a \in ShortSeqs, b \in ShortSeqs}
    \cup {<<a, b>> : a \in LongSeqs, b \in LongSeqs}

-----------------------------------------------------------------------------
(* Inputs of the tree diff: pairs of indexed documents, by family           *)

MaxKids == 3
MaxSmallDepth == 1
MaxSmallOps == 1
KidIds == 1..MaxKids

\* The root element of a document.
Root(tag, attrs, children) == Element(10, tag, attrs, children)

ElementIds(list) == {list[i].id : i \in {j \in 1..Len(list) : IsElement(list[j])}}

\* Sibling lists of an indexed tree: no two elements share a StableId.
DistinctIds(list) ==
    \A i, j \in 1..Len(list) :
        (IsElement(list[i]) /\ IsElement(list[j]) /\ list[i].id = list[j].id) => i = j

Lists(nodes, n) == {l \in SeqsUpTo(nodes, n) : DistinctIds(l)}

\* <p>txt</p>, or <p></p> for the empty text.
P(id, txt) == Element(id, "p", <<>>, IF txt = "" THEN <<>> ELSE <<Text(txt)>>)

\* A row of paragraphs with the given ids; those in `changed` read "b".
Row(ids, changed) ==
    Vec([i \in 1..Len(ids) |-> P(ids[i], IF ids[i] \in changed THEN "b" ELSE "a")])

\* Family "list": a div of keyed paragraphs, reordered, grown and shrunk; the
\* paragraph with id 1 changes its text.
IdLists == {l \in SeqsUpTo(KidIds, MaxKids) :
               \A i, j \in 1..Len(l) : l[i] = l[j] => i = j}
ListOld == {Root("div", <<>>, Row(l, {})) : l \in IdLists}
ListNew == {Root("div", <<>>, Row(l, {1})) : l \in IdLists}

\* Family "nested": a div holding a section (id 1) with its own paragraphs
\* next to plain paragraphs.
SecKids == {<<>>, <<4>>, <<4, 5>>, <<5, 4>>}
TopNodes == {Element(1, "div", <<>>, Row(ks, {})) : ks \in SecKids}
            \cup {P(2, "a"), P(3, "a")}
NestedTrees == {Root("div", <<>>, l) : l \in Lists(TopNodes, 2)}

\* Family "mixed": text nodes and paragraphs side by side.
MixNodes == {Text("a"), Text("b"), P(1, "a"), P(1, "b"), P(2, "")}
MixedTrees == {Root("div", <<>>, l) : l \in Lists(MixNodes, 2)}

\* Family "svg": an svg element as the root; and a body holding the svg
\* element alone or after a text node.
G(d) == Element(2, "g", <<>>, <<Element(3, "path", <<<<"d", d>>>>, <<>>)>>)
SvgKids == {<<>>, <<Text("m")>>, <<Text("n")>>, <<G("1")>>, <<G("2")>>}
SvgAttrs == {<<>>, <<<<"width", "1">>>>}
SvgNodes == {Element(1, "svg", at, ks) : at \in SvgAttrs, ks \in SvgKids}
SvgInBody ==
    {Root("body", <<>>, <<sv>>) : sv \in SvgNodes}
    \cup {Root("body", <<>>, <<Text(t), sv>>) : t \in {"a", "b"}, sv \in SvgNodes}

\* Family "attrs": one element whose tag, attributes and text vary.
AttrTags == {"div", "link", "script"}
AttrLists == {<<>>,
              <<<<"class", "x">>>>, <<<<"class", "y">>>>,
              <<<<"href", "u">>>>, <<<<"href", "v">>>>,
              <<<<"src", "s">>>>, <<<<"src", "t">>>>,
              <<<<"class", "x">>, <<"href", "u">>>>,
              <<<<"href", "u">>, <<"class", "x">>>>}
AttrTrees == {Root(tag, at, IF t = "" THEN <<>> ELSE <<Text(t)>>) :
                 tag \in AttrTags, at \in AttrLists, t \in {"", "a", "b"}}

\* Family "head": an html root holding a block (id 1) whose tag and text
\* vary, a script (id 2) whose src varies and a link (id 3) whose href varies.
HeadNodes ==
    {Element(1, t, <<>>, <<P(4, x)>>) : t \in {"div", "section"}, x \in {"a", "b"}}
    \cup {Element(2, "script", <<<<"src", x>>>>, <<>>) : x \in {"s", "t"}}
    \cup {Element(3, "link", <<<<"href", x>>>>, <<>>) : x \in {"u", "v"}}
HeadTrees == {Root("html", <<>>, l) : l \in Lists(HeadNodes, 2)}

\* Configurations: the default, and thresholds small enough to be met.
SmallConfigs ==
    {DiffConfig(d, DEFAULT_MAX_OPS) : d \in 0..MaxSmallDepth}
    \cup {DiffConfig(DEFAULT_MAX_DIFF_DEPTH, o) : o \in 0..MaxSmallOps}

AllConfigs == {DefaultConfig} \cup SmallConfigs

\* Family "long": two sibling lists with nothing in common, long enough that
\* the Myers search passes its ceiling (an edit distance above 512).
LongKids == MAX_EDIT_DISTANCE \div 2 + 1
LongRow(base) == Vec([i \in 1..LongKids |-> P(base + i, "")])
LongOld == {Root("div", <<>>, LongRow(1000))}
LongNew == {Root("div", <<>>, LongRow(2000))}

NoResult == [edits |-> <<>>, stats |-> LcsStats(0, 0, 0, 0)]
NoNode == Text("")
NoConfig == DiffConfig(0, 0)
NoDiff == [ops |-> <<>>, should_reload |-> FALSE, reload_reason |-> None,
           stats |-> DiffStats]

-----------------------------------------------------------------------------
(* The sequence diff as a run: an input pair, then the call                 *)

\* Nothing has been handed to the Indexer or to StableId::for_element.
IdleId ==
    /\ raw_old = NoNode /\ raw_new = NoNode
    /\ indexed_old = NoNode /\ indexed_new = NoNode
    /\ elem = <<>> /\ made = <<>>

\* No cache exists and no CacheKey has been made.
IdleCache ==
    /\ pages = <<>> /\ cache_log = <<>> /\ got = <<>>
    /\ urls = <<>> /\ keys = <<>>

\* Nothing has been rendered and no pipeline exists.
IdleAux ==
    /\ render_config = <<>> /\ patches = <<>>
    /\ pending = <<>> /\ completed = <<>> /\ pipeline_result = <<>>

InitSeq ==
    /\ pc = "seq_input"
    /\ \E p \in SeqInputs : seq_old = p[1] /\ seq_new = p[2]
    /\ seq_result = NoResult
    /\ old = NoNode /\ new = NoNode /\ dom = NoNode
    /\ config = NoConfig
    /\ result = NoDiff
    /\ compared = <<>>
    /\ deepest = 0
    /\ applied = 0
    /\ IdleId /\ IdleCache /\ IdleAux

RunDiffSequences ==
    /\ pc = "seq_input"
    /\ seq_result' = diff_sequences(seq_old, seq_new)
    /\ pc' = "seq_done"
    /\ UNCHANGED <<old, new, config, result, compared, deepest, dom, applied, seq_old, seq_new>>
    /\ UNCHANGED <<id_vars, cache_vars, aux_vars>>

NextSeq == RunDiffSequences

SpecSeq == InitSeq /\ [][NextSeq]_vars

-----------------------------------------------------------------------------
(* The tree diff as a run: two documents, the diff, then the client         *)
(* applying the ops one at a time, or reloading                             *)

\* A run on one pair of documents drawn from a family, under one configuration.
InitWith(trees_old, trees_new, configs) ==
    /\ pc = "input"
    /\ old \in trees_old
    /\ new \in trees_new
    /\ config \in configs
    /\ result = NoDiff
    /\ compared = <<>>
    /\ deepest = 0
    /\ dom = NoNode
    /\ applied = 0
    /\ seq_old = <<>> /\ seq_new = <<>> /\ seq_result = NoResult
    /\ IdleId /\ IdleCache /\ IdleAux

Init ==
    \/ InitWith(ListOld, ListNew, AllConfigs)
    \/ InitWith(NestedTrees, NestedTrees, AllConfigs)
    \/ InitWith(MixedTrees, MixedTrees, AllConfigs)
    \/ InitWith(SvgNodes, SvgNodes, AllConfigs)
    \/ InitWith(SvgInBody, SvgInBody, AllConfigs)
    \/ InitWith(AttrTrees, AttrTrees, AllConfigs)
    \/ InitWith(HeadTrees, HeadTrees, AllConfigs)

\* diff_with_config(old, new, config) returns; the client holds the old tree.
\* In a build with debug assertions the call panics instead when a
\* debug_assert! has failed on the way.
RunDiff ==
    /\ pc = "input"
    /\ \E ctx \in {diff_context(old, new, config)}, debug_assertions \in BOOLEAN :
          IF debug_assertions /\ ctx.assert_failed
          THEN pc' = "panicked" /\ UNCHANGED <<result, compared, deepest>>
          ELSE /\ pc' = "diffed"
               /\ result' = into_result(ctx)
               /\ compared' = ctx.compared
               /\ deepest' = ctx.deepest
    /\ dom' = old
    /\ UNCHANGED <<old, new, config, applied, seq_old, seq_new, seq_result>>
    /\ UNCHANGED <<id_vars, cache_vars, aux_vars>>

\* The client applies the next op of the list.
ApplyOp ==
    /\ pc = "diffed"
    /\ ~result.should_reload
    /\ applied < Len(result.ops)
    /\ dom' = apply_op(dom, result.ops[applied + 1])
    /\ applied' = applied + 1
    /\ UNCHANGED <<pc, old, new, config, result, compared, deepest, seq_old, seq_new, seq_result>>
    /\ UNCHANGED <<id_vars, cache_vars, aux_vars>>

\* Every op has been applied.
Patched ==
    /\ pc = "diffed"
    /\ ~result.should_reload
    /\ applied = Len(result.ops)
    /\ pc' = "patched"
    /\ UNCHANGED <<old, new, config, result, compared, deepest, dom, applied,
                   seq_old, seq_new, seq_result>>
    /\ UNCHANGED <<id_vars, cache_vars, aux_vars>>

\* The client discards the ops and loads the new document.
Reload ==
    /\ pc = "diffed"
    /\ result.should_reload
    /\ dom' = new
    /\ pc' = "reloaded"
    /\ UNCHANGED <<old, new, config, result, compared, deepest, applied,
                   seq_old, seq_new, seq_result>>
    /\ UNCHANGED <<id_vars, cache_vars, aux_vars>>

Next == RunDiff \/ ApplyOp \/ Patched \/ Reload

Spec == Init /\ [][Next]_vars

\* The same run on the long sibling lists; no reload arises there.
InitLong == InitWith(LongOld, LongNew, {DefaultConfig})
NextLong == RunDiff \/ ApplyOp \/ Patched
SpecLong == InitLong /\ [][NextLong]_vars

-----------------------------------------------------------------------------
(* Properties of the diff result and of the patched tree                    *)

\* diff_with_config has just returned: the result is in, no op is applied yet.
Returned == pc = "diffed" /\ applied = 0

\* The ops of the result that satisfy Pred, as positions of the list.
OpsWhere(Pred(_)) == {i \in 1..Len(result.ops) : Pred(result.ops[i])}

\* The number of ops the diff emits for the pair when no threshold stops it.
edit_distance(old_root, new_root) == Len(diff(old_root, new_root).ops)

\* C1: whenever diff returns should_reload = false, applying the returned ops
\* to the old tree one at a time in list order produces a tree equal to the
\* new one: same tags, attributes, text contents and child order everywhere.
C1_PatchedTreeEqualsNew == pc = "patched" => shape(dom) = shape(new)

\* C2: when the number of ops the diff has to emit for the two trees exceeds
\* config.max_ops, diff_with_config returns should_reload = true.
C2_ExceedingMaxOpsReloads ==
    (Returned /\ edit_distance(old, new) > config.max_ops) => result.should_reload

\* C3: in every returned DiffResult, should_reload = true implies that the
\* ops list is empty.
C3_ReloadCarriesNoOps == (Returned /\ result.should_reload) => result.ops = <<>>

\* C4: when the descent went deeper than config.max_depth, diff_with_config
\* returns should_reload = true together with a reload reason.
C4_ExceedingMaxDepthReloads ==
    (Returned /\ deepest > config.max_depth)
        => (result.should_reload /\ result.reload_reason # None)

\* C5: when the sequence diff of a sibling list gives up because the Myers
\* edit distance passes the ceiling of 512, the tree diff returns
\* should_reload = true, as for an exceeded DiffConfig threshold.
C5_MyersAbortReloads ==
    (Returned /\ myers_aborts(stable_ids(old.children), stable_ids(new.children)))
        => result.should_reload

\* The anchor of an Insert or a Move.
op_anchor(o) == IF o.op = "Insert" THEN o.anchor ELSE o.to

\* The client is about to apply an Insert or a Move.
PlacingNext ==
    /\ pc = "diffed"
    /\ ~result.should_reload
    /\ applied < Len(result.ops)
    /\ result.ops[applied + 1].op \in {"Insert", "Move"}

\* C6: at the point where an Insert or a Move is applied, after all earlier
\* ops of the list, the StableId its anchor names belongs to an element that
\* is present in the tree.
C6_AnchorPresentWhenApplied ==
    PlacingNext => present(dom, op_anchor(result.ops[applied + 1]).id)

Removes == OpsWhere(LAMBDA o : o.op = "Remove")
Inserts == OpsWhere(LAMBDA o : o.op = "Insert")

\* A Remove and an Insert are for distinct nodes.
DistinctNodes(r, i) ==
    IsText(result.ops[i].node) \/ result.ops[i].node.id # result.ops[r].target

First(S) == CHOOSE i \in S : \A j \in S : i <= j

\* C7 as stated: in an ops list holding both a Remove and an Insert for
\* distinct nodes, the first Remove comes before the first Insert.
C7_FirstRemoveBeforeFirstInsert ==
    (Returned /\ \E r \in Removes, i \in Inserts : DistinctNodes(r, i))
        => First(Removes) < First(Inserts)

\* The id of the element whose child list holds the element of that id.
RECURSIVE parent_of(_, _)
parent_of(node, id) ==
    IF \E k \in 1..Len(node.children) :
           IsElement(node.children[k]) /\ node.children[k].id = id
    THEN Some(node.id)
    ELSE LET under == {k \in 1..Len(node.children) :
                          parent_of(node.children[k], id) # None}
         IN IF under = {} THEN None ELSE parent_of(node.children[First(under)], id)

\* The element whose child list an op changes: a Remove takes its target out
\* of the old tree, an Insert puts its node into a list of the new tree.
list_of(o) ==
    IF o.op = "Remove" THEN parent_of(old, o.target)
    ELSE IF o.anchor.kind \in {"FirstChildOf", "LastChildOf"} THEN Some(o.anchor.id)
    ELSE parent_of(new, o.anchor.id)

\* C7, amended: among the ops on one sibling list (the children of one
\* element), every Remove comes before every Insert.
C7_RemoveBeforeInsertPerList ==
    Returned =>
        \A r \in Removes, i \in Inserts :
            list_of(result.ops[r]) = list_of(result.ops[i]) => r < i

\* In one sibling list the diff has removed one element and inserted another.
C7_Witness ==
    /\ Returned
    /\ config = DefaultConfig
    /\ \E r \in Removes, i \in Inserts :
          /\ list_of(result.ops[r]) = list_of(result.ops[i])
          /\ DistinctNodes(r, i)
          /\ r < i

\* The edits of the result that classify old index o, and new index n.
EditsOfOld(o) ==
    {i \in 1..Len(seq_result.edits) :
        /\ seq_result.edits[i].kind \in {"Keep", "Move", "Delete"}
        /\ seq_result.edits[i].old_idx = o}
EditsOfNew(n) ==
    {i \in 1..Len(seq_result.edits) :
        /\ seq_result.edits[i].kind \in {"Keep", "Move", "Insert"}
        /\ seq_result.edits[i].new_idx = n}

\* C8: the edit list of diff_sequences holds every old index in exactly one
\* Keep, Move or Delete edit and every new index in exactly one Keep, Move or
\* Insert edit.
C8_EveryIndexClassifiedOnce ==
    pc = "seq_done" =>
        /\ \A o \in 0..(Len(seq_old) - 1) : Cardinality(EditsOfOld(o)) = 1
        /\ \A n \in 0..(Len(seq_new) - 1) : Cardinality(EditsOfNew(n)) = 1

\* The ids of the elements below a node.
RECURSIVE ids_inside(_)
ids_inside(node) ==
    UNION {(IF IsElement(node.children[k]) THEN {node.children[k].id} ELSE {})
           \cup ids_inside(node.children[k]) : k \in 1..Len(node.children)}

\* The ids an op names: its target, and the element of its anchor.
op_ids(o) ==
    IF o.op = "Insert" THEN {o.anchor.id}
    ELSE IF o.op = "Move" THEN {o.target, o.to.id}
    ELSE {o.target}

\* The compared pairs of an svg element whose children differ.
SvgPairs ==
    {i \in 1..Len(compared) :
        /\ compared[i][1].tag = "svg"
        /\ compared[i][1].children # compared[i][2].children}

\* C9: for an svg element the diff compares and whose children differ, the
\* ops hold exactly one ReplaceChildren with is_svg = true on it (or a Replace
\* of it), and no op names a node inside its subtree.
C9_SvgAtomic ==
    Returned =>
        \A i \in SvgPairs :
            /\ Cardinality(OpsWhere(LAMBDA o :
                   \/ o.op = "ReplaceChildren" /\ o.is_svg /\ o.target = compared[i][1].id
                   \/ o.op = "Replace" /\ o.target = compared[i][1].id)) = 1
            /\ OpsWhere(LAMBDA o :
                   op_ids(o) \cap (ids_inside(compared[i][1])
                                   \cup ids_inside(compared[i][2])) # {}) = {}

\* The text of a child list that is empty or a single text node.
text_of(children) ==
    IF children = <<>> THEN Some("")
    ELSE IF Len(children) = 1 /\ children[1].kind = "text" THEN Some(children[1].content)
    ELSE None

\* The compared pairs of one non-svg element whose children are, old and
\* new, empty or a single text node, with different text.
TextPairs ==
    {i \in 1..Len(compared) :
        /\ compared[i][1].tag = compared[i][2].tag
        /\ compared[i][1].tag # "svg"
        /\ text_of(compared[i][1].children) # None
        /\ text_of(compared[i][2].children) # None
        /\ text_of(compared[i][1].children) # text_of(compared[i][2].children)}

UpdateTextsOf(id) == OpsWhere(LAMBDA o : o.op = "UpdateText" /\ o.target = id)

\* C10: for a non-svg element the diff compares, whose old and new children
\* are each empty or one text node and whose text differs, the ops hold
\* exactly one UpdateText on it, carrying the new text (the empty string when
\* the text is gone), no Insert into it and no Remove of it.
C10_TextFastPath ==
    Returned =>
        \A i \in TextPairs :
            /\ Cardinality(UpdateTextsOf(compared[i][1].id)) = 1
            /\ \A u \in UpdateTextsOf(compared[i][1].id) :
                   result.ops[u].text = text_of(compared[i][2].children)[1]
            /\ OpsWhere(LAMBDA o :
                   \/ o.op = "Insert" /\ o.anchor.id = compared[i][1].id
                                      /\ o.anchor.kind \in {"FirstChildOf", "LastChildOf"}
                   \/ o.op = "Remove" /\ o.target = compared[i][1].id) = {}

\* The diff has compared an element that went from no children to a text
\* child, and has emitted an UpdateText on it.
C10_Witness ==
    /\ Returned
    /\ \E i \in TextPairs :
          /\ compared[i][1].children = <<>>
          /\ UpdateTextsOf(compared[i][1].id) # {}

\* The ids of the element children of a node.
child_ids(node) ==
    {node.children[k].id : k \in {j \in 1..Len(node.children) :
                                    node.children[j].kind = "element"}}

\* The compared pairs whose children are elements only, the same elements
\* (by StableId) old and new, in a different order.
ReorderedPairs ==
    {i \in 1..Len(compared) :
        /\ \A k \in 1..Len(compared[i][1].children) :
               compared[i][1].children[k].kind = "element"
        /\ \A k \in 1..Len(compared[i][2].children) :
               compared[i][2].children[k].kind = "element"
        /\ Len(compared[i][1].children) = Len(compared[i][2].children)
        /\ Cardinality(child_ids(compared[i][1])) = Len(compared[i][1].children)
        /\ child_ids(compared[i][1]) = child_ids(compared[i][2])
        /\ \E k \in 1..Len(compared[i][1].children) :
               compared[i][1].children[k].id # compared[i][2].children[k].id}

\* C11: when the element children of a parent are reordered, none added,
\* removed or changing its StableId, the diff emits no Remove and no Insert
\* for that sibling list: its children are placed by Move ops only.
C11_ReorderOnlyMoves ==
    Returned =>
        \A i \in ReorderedPairs :
            OpsWhere(LAMBDA o :
                \/ o.op = "Remove" /\ o.target \in child_ids(compared[i][1])
                \/ o.op = "Insert" /\ o.node.kind = "element"
                                   /\ o.node.id \in child_ids(compared[i][2])) = {}

\* The diff has compared a parent whose children were reordered and has
\* moved one of them.
C11_Witness ==
    /\ Returned
    /\ \E i \in ReorderedPairs :
          OpsWhere(LAMBDA o : o.op = "Move"
                              /\ o.target \in child_ids(compared[i][1])) # {}

-----------------------------------------------------------------------------
(* StableHasher (src/src/hash.rs): blake3 over the bytes fed to it, in the  *)
(* order they are fed. A hasher is the sequence of bytes it has received.    *)

\* u8 of a character of a &str (ASCII).
byte_of(c) ==
    IF c = "-" THEN 45
    ELSE IF c = "_" THEN 95
    ELSE 96 + (CHOOSE k \in 1..26 : SubSeq("abcdefghijklmnopqrstuvwxyz", k, k) = c)

\* str::as_bytes
as_bytes(s) == Vec([i \in 1..Len(s) |-> byte_of(SubSeq(s, i, i))])

\* usize::to_le_bytes, u64::to_le_bytes: eight bytes, least significant first.
RECURSIVE byte_at(_, _)
byte_at(v, i) == IF i = 0 THEN v % 256 ELSE byte_at(v \div 256, i - 1)

to_le_bytes(v) == Vec([i \in 1..8 |-> byte_at(v, i - 1)])

\* StableHasher::new
StableHasher == <<>>

\* StableHasher::update: the bytes are appended to what was fed before,
\* with nothing between one call's bytes and the next call's.
update(h, data) == h \o data

update_str(h, s) == update(h, as_bytes(s))

\* StableHasher::update_u64 of a value held as its eight-byte word.
update_u64(h, v) == update(h, v)

update_usize(h, v) == update(h, to_le_bytes(v))

\* StableHasher::finish: the first eight bytes of the blake3 digest as a u64.
\* blake3 is taken as free of collisions: the u64 is written as the bytes
\* that were hashed, between two marks that are no byte values, and reads
\* as one eight-byte word wherever it is hashed again.
finish(h) == <<256>> \o h \o <<257>>

-----------------------------------------------------------------------------
(* StableId constructors (src/src/id.rs)                                    *)

\* str::starts_with
starts_with(s, prefix) ==
    Len(s) >= Len(prefix) /\ SubSeq(s, 1, Len(prefix)) = prefix

\* A predicate that takes every attribute for a key attribute.
is_key_attr_any(k) == TRUE

\* k == "id" || k == "key" || k.starts_with("data-key")
is_key_attr(k) == k = "id" \/ k = "key" \/ starts_with(k, "data-key")

\* The loop over attrs: name and value of each key attribute are hashed.
hash_key_attrs(h, attrs) ==
    Fold(LAMBDA acc, kv : IF is_key_attr(kv[1])
                          THEN update_str(update_str(acc, kv[1]), kv[2])
                          ELSE acc,
         h, attrs)

\* An id that the ids of the children enter as well.
for_element_with_children(tag, attrs, children, occurrence, parent_seed) ==
    finish(update_usize(
        Fold(LAMBDA acc, c : update(acc, c),
             hash_key_attrs(update_str(update_u64(StableHasher, parent_seed), tag), attrs),
             children),
        occurrence))

\* StableId::for_element(tag, attrs, _children, occurrence, parent_seed)
for_element(tag, attrs, children, occurrence, parent_seed) ==
    finish(update_usize(
        hash_key_attrs(update_str(update_u64(StableHasher, parent_seed), tag), attrs),
        occurrence))

\* StableId::for_text(occurrence, parent_seed)
for_text(occurrence, parent_seed) ==
    finish(update_usize(
        update_str(update_u64(StableHasher, parent_seed), "__text__"),
        occurrence))

-----------------------------------------------------------------------------
(* Indexer (src/src/transform/indexer.rs): Raw document to Indexed document *)

\* A Raw element: it carries no StableId yet.
RawElement(tag, attrs, children) == Element(<<>>, tag, attrs, children)

\* ContentKey::from_raw_node
ContentKey(node) ==
    IF node.kind = "element"
    THEN [kind |-> "Element", tag |-> node.tag,
          key_attrs_hash |-> finish(hash_key_attrs(StableHasher, node.attrs))]
    ELSE [kind |-> "Text", tag |-> "", key_attrs_hash |-> <<>>]

\* occurrence_counts.entry(key).or_insert(0): the count held for the key.
occurrence_of(counts, key) == IF key \in DOMAIN counts THEN counts[key] ELSE 0

\* *occurrence += 1
count_one(counts, key) ==
    [k \in DOMAIN counts \cup {key} |->
        IF k = key THEN occurrence_of(counts, key) + 1 ELSE counts[k]]

RECURSIVE index_element(_, _, _)
RECURSIVE index_children(_, _)
RECURSIVE index_node_with_occurrence(_, _, _)

\* Indexer::index_element: the element's id is made first and seeds its
\* children.
index_element(e, occurrence, parent_seed) ==
    Let(for_element(e.tag, e.attrs, <<>>, occurrence, parent_seed),
        LAMBDA stable_id :
            Element(stable_id, e.tag, e.attrs, index_children(e.children, stable_id)))

\* Indexer::index_node_with_occurrence
index_node_with_occurrence(node, occurrence, parent_seed) ==
    IF node.kind = "element"
    THEN index_element(node, occurrence, parent_seed)
    ELSE [Text(node.content) EXCEPT !.id = for_text(occurrence, parent_seed)]

\* Indexer::index_children: each child takes the number of earlier siblings
\* of its ContentKey as its occurrence.
index_children(children, parent_seed) ==
    Fold(LAMBDA acc, child :
            Let(ContentKey(child), LAMBDA content_key :
                [counts |-> count_one(acc.counts, content_key),
                 nodes |-> Append(acc.nodes,
                              index_node_with_occurrence(
                                  child, occurrence_of(acc.counts, content_key),
                                  parent_seed))]),
         [counts |-> <<>>, nodes |-> <<>>],
         children).nodes

\* Indexer::new().transform(doc): page_seed is 0 and the root's occurrence 0.
index_document(root) == index_element(root, 0, to_le_bytes(0))

-----------------------------------------------------------------------------
(* Inputs of the StableId constructors and of the Indexer                   *)

MaxAttrs == 2
MaxOccurrence == 1
MaxSiblings == 3

\* Attributes an element may carry: key attributes and others.
AttrPool == {<<"id", "a">>, <<"id", "akeyb">>, <<"key", "b">>,
             <<"data-key-x", "a">>, <<"class", "a">>, <<"class", "b">>}

\* Attribute lists of at most MaxAttrs attributes with distinct names.
AttrSeqs ==
    UNION {{a \in [1..n -> AttrPool] :
               \A i, j \in 1..n : i # j => a[i][1] # a[j][1]} : n \in 0..MaxAttrs}

Seeds == {to_le_bytes(0), to_le_bytes(1), for_element("div", <<>>, <<>>, 0, to_le_bytes(0))}

\* Raw children of a sibling list.
RawPool == {RawElement("p", <<>>, <<>>),
            RawElement("p", <<<<"id", "a">>>>, <<>>),
            RawElement("p", <<<<"id", "b">>>>, <<>>),
            RawElement("p", <<<<"class", "x">>>>, <<>>),
            RawElement("p", <<<<"class", "y">>>>, <<Text("t")>>),
            RawElement("div", <<>>, <<RawElement("p", <<>>, <<>>), Text("t")>>),
            Text("t")}

\* Sibling lists of pairwise distinct raw children.
RawLists ==
    UNION {{l \in [1..n -> RawPool] : \A i, j \in 1..n : i # j => l[i] # l[j]} :
              n \in 0..MaxSiblings}

\* The orders in which the children of a list can be written.
Reorders(l) ==
    {Vec([i \in 1..Len(l) |-> l[p[i]]]) :
        p \in {q \in [1..Len(l) -> 1..Len(l)] :
                  \A i, j \in 1..Len(l) : i # j => q[i] # q[j]}}

\* Two calls of for_element that differ in the attribute list only.
InitId ==
    /\ pc = "id_input"
    /\ \E tag \in {"div"}, a \in AttrSeqs, b \in AttrSeqs,
          occurrence \in 0..MaxOccurrence, parent_seed \in Seeds :
          elem = [tag |-> tag, attrs_a |-> a, attrs_b |-> b,
                  occurrence |-> occurrence, parent_seed |-> parent_seed]
    /\ made = <<>>
    /\ raw_old = NoNode /\ raw_new = NoNode
    /\ indexed_old = NoNode /\ indexed_new = NoNode
    /\ old = NoNode /\ new = NoNode /\ dom = NoNode
    /\ config = NoConfig /\ result = NoDiff
    /\ compared = <<>> /\ deepest = 0 /\ applied = 0
    /\ seq_old = <<>> /\ seq_new = <<>> /\ seq_result = NoResult
    /\ IdleCache /\ IdleAux

RunForElement ==
    /\ pc = "id_input"
    /\ made' = <<for_element(elem.tag, elem.attrs_a, <<>>, elem.occurrence, elem.parent_seed),
                 for_element(elem.tag, elem.attrs_b, <<>>, elem.occurrence, elem.parent_seed)>>
    /\ pc' = "id_made"
    /\ UNCHANGED <<raw_old, raw_new, indexed_old, indexed_new, elem>>
    /\ UNCHANGED <<diff_vars_but_pc, cache_vars, aux_vars>>

NextId == RunForElement

SpecId == InitId /\ [][NextId]_vars

\* Two Raw documents whose roots hold the same children in two orders.
InitIndex ==
    /\ pc = "index_input"
    /\ \E l \in RawLists : \E r \in Reorders(l) :
          /\ raw_old = RawElement("div", <<>>, l)
          /\ raw_new = RawElement("div", <<>>, r)
    /\ indexed_old = NoNode /\ indexed_new = NoNode
    /\ elem = <<>> /\ made = <<>>
    /\ old = NoNode /\ new = NoNode /\ dom = NoNode
    /\ config = NoConfig /\ result = NoDiff
    /\ compared = <<>> /\ deepest = 0 /\ applied = 0
    /\ seq_old = <<>> /\ seq_new = <<>> /\ seq_result = NoResult
    /\ IdleCache /\ IdleAux

\* Indexer::new().transform(doc) on each of the two documents.
RunIndexer ==
    /\ pc = "index_input"
    /\ indexed_old' = index_document(raw_old)
    /\ indexed_new' = index_document(raw_new)
    /\ pc' = "indexed"
    /\ UNCHANGED <<raw_old, raw_new, elem, made>>
    /\ UNCHANGED <<diff_vars_but_pc, cache_vars, aux_vars>>

NextIndex == RunIndexer

SpecIndex == InitIndex /\ [][NextIndex]_vars

-----------------------------------------------------------------------------
(* Properties of the StableIds                                              *)

\* The names the specification calls key attributes.
IsKeyName(k) ==
    k \in {"id", "key"} \/ (Len(k) >= 8 /\ SubSeq(k, 1, 8) = "data-key")

\* The key attributes of an attribute list, in order.
KeyPairs(attrs) ==
    Fold(LAMBDA acc, kv : IF IsKeyName(kv[1]) THEN Append(acc, kv) ELSE acc,
         <<>>, attrs)

\* C12: reordering the children of a sibling list, no child's tag or key
\* attributes altered, leaves each child the StableId the Indexer gave it
\* before.
C12_ReorderKeepsStableIds ==
    pc = "indexed" =>
        \A i \in 1..Len(raw_old.children) : \A j \in 1..Len(raw_new.children) :
            raw_old.children[i] = raw_new.children[j]
                => indexed_old.children[i].id = indexed_new.children[j].id

\* C13: two attribute lists with the same key attributes (id, key,
\* data-key*) give the same StableId, tag, occurrence and parent seed being
\* equal: attributes of other names do not enter the id.
C13_NonKeyAttrsDoNotChangeId ==
    pc = "id_made" =>
        (KeyPairs(elem.attrs_a) = KeyPairs(elem.attrs_b) => made[1] = made[2])

\* Two lists that differ, in attributes that are no key attributes only,
\* have been given their ids.
C13_Witness ==
    /\ pc = "id_made"
    /\ elem.attrs_a # elem.attrs_b
    /\ KeyPairs(elem.attrs_a) = KeyPairs(elem.attrs_b)
    /\ KeyPairs(elem.attrs_a) # <<>>
    /\ made[1] = made[2]

\* C14: two attribute lists whose key attributes differ give different
\* StableIds, tag, occurrence and parent seed being equal.
C14_KeyAttrsChangeId ==
    pc = "id_made" =>
        (KeyPairs(elem.attrs_a) # KeyPairs(elem.attrs_b) => made[1] # made[2])

-----------------------------------------------------------------------------
(* Properties of the attribute diff and of the tag check                    *)

\* The compared pairs of the given tag, old and new, whose attribute `name`
\* differs.
AttrPairs(tag, name) ==
    {i \in 1..Len(compared) :
        /\ compared[i][1].tag = tag
        /\ compared[i][2].tag = tag
        /\ get_attr(compared[i][1], name) # get_attr(compared[i][2], name)}

\* C15: when the src of a script element the diff compares differs between
\* old and new, the result has should_reload = true and reload_reason
\* "script src changed".
C15_ScriptSrcReloads ==
    Returned =>
        (AttrPairs("script", "src") # {}
            => /\ result.should_reload
               /\ result.reload_reason = Some("script src changed"))

\* The diff has compared a script whose src differs and asks for a reload.
C15_Witness ==
    /\ Returned
    /\ \E i \in AttrPairs("script", "src") :
          compared[i][1].id # old.id /\ result.should_reload

\* C16: when the href of a link element the diff compares differs between
\* old and new, the ops hold a Replace of that element carrying the new
\* element, and no UpdateAttrs on it.
C16_LinkHrefReplaces ==
    Returned =>
        \A i \in AttrPairs("link", "href") :
            /\ OpsWhere(LAMBDA o : o.op = "Replace"
                                   /\ o.target = compared[i][1].id
                                   /\ o.element = compared[i][2]) # {}
            /\ OpsWhere(LAMBDA o : o.op = "UpdateAttrs"
                                   /\ o.target = compared[i][1].id) = {}

\* The diff has compared a link whose href and class both differ, and has
\* replaced it.
C16_Witness ==
    /\ Returned
    /\ \E i \in AttrPairs("link", "href") :
          /\ get_attr(compared[i][1], "class") # get_attr(compared[i][2], "class")
          /\ OpsWhere(LAMBDA o : o.op = "Replace"
                                 /\ o.target = compared[i][1].id) # {}

\* The compared pairs whose tags differ.
TagPairs == {i \in 1..Len(compared) : compared[i][1].tag # compared[i][2].tag}

\* C17: when the tags of a compared pair differ, the ops hold exactly one
\* Replace on the old element's StableId, it carries the new subtree, and no
\* op names or inserts a descendant of the old or of the new element.
C17_TagMismatchReplaces ==
    Returned =>
        \A i \in TagPairs :
            /\ Cardinality(OpsWhere(LAMBDA o : o.op = "Replace"
                                               /\ o.target = compared[i][1].id)) = 1
            /\ \A r \in OpsWhere(LAMBDA o : o.op = "Replace"
                                            /\ o.target = compared[i][1].id) :
                   result.ops[r].element = compared[i][2]
            /\ OpsWhere(LAMBDA o :
                   \/ op_ids(o) \cap (ids_inside(compared[i][1])
                                      \cup ids_inside(compared[i][2])) # {}
                   \/ o.op = "Insert" /\ o.node.kind = "element"
                        /\ o.node.id \in ids_inside(compared[i][1])
                                         \cup ids_inside(compared[i][2])) = {}

\* The diff has compared two elements below the root whose tags differ and
\* whose paragraphs differ too, and has replaced the old one.
C17_Witness ==
    /\ Returned
    /\ \E i \in TagPairs :
          /\ compared[i][1].id # old.id
          /\ compared[i][1].children # compared[i][2].children
          /\ compared[i][1].children # <<>>
          /\ OpsWhere(LAMBDA o : o.op = "Replace"
                                 /\ o.target = compared[i][1].id) # {}

-----------------------------------------------------------------------------
(* CacheKey (src/src/cache.rs): a URL path normalized at construction       *)

\* str::contains for a pattern of one or two characters.
contains(s, pat) ==
    \E i \in 1..(Len(s) - Len(pat) + 1) : SubSeq(s, i, i + Len(pat) - 1) = pat

\* s.split(c).next(): the part of s before the first c, all of s without one.
split_next(s, c) ==
    IF contains(s, c)
    THEN SubSeq(s, 1, (CHOOSE i \in 1..Len(s) :
                          /\ SubSeq(s, i, i) = c
                          /\ \A j \in 1..(i - 1) : SubSeq(s, j, j) # c) - 1)
    ELSE s

\* path.replace("//", "/"): one pass from the left over the matches, which
\* do not overlap.
RECURSIVE replace_slashes(_)
replace_slashes(path) ==
    IF Len(path) < 2 THEN path
    ELSE IF SubSeq(path, 1, 2) = "//"
         THEN "/" \o Let(SubSeq(path, 3, Len(path)), LAMBDA rest : replace_slashes(rest))
         ELSE SubSeq(path, 1, 1)
              \o Let(SubSeq(path, 2, Len(path)), LAMBDA rest : replace_slashes(rest))

\* A single pass of the replacement, whatever it leaves.
collapse_slashes_once(path) == replace_slashes(path)

\* while path.contains("//") { path = path.replace("//", "/") }
RECURSIVE collapse_slashes(_)
collapse_slashes(path) ==
    IF contains(path, "//")
    THEN Let(replace_slashes(path), LAMBDA p : collapse_slashes(p))
    ELSE path

\* if !path.starts_with('/') { path = format!("/{}", path) }
ensure_leading_slash(path) ==
    IF Len(path) >= 1 /\ SubSeq(path, 1, 1) = "/" THEN path ELSE "/" \o path

\* if path.len() > 1 && path.ends_with('/') { path.pop() }
pop_trailing_slash(path) ==
    IF Len(path) > 1 /\ SubSeq(path, Len(path), Len(path)) = "/"
    THEN SubSeq(path, 1, Len(path) - 1)
    ELSE path

\* CacheKey::normalize
normalize(url) ==
    Let(split_next(split_next(url, "#"), "?"), LAMBDA path :
    Let(collapse_slashes(path), LAMBDA collapsed :
    Let(ensure_leading_slash(collapsed), LAMBDA rooted :
        pop_trailing_slash(rooted))))

\* CacheKey::new
CacheKey(url_path) == normalize(url_path)

MaxUrlLen == 4

UrlChars == {"/", "a", "?", "#"}

\* The strings over UrlChars of length n.
RECURSIVE UrlsOfLen(_)
UrlsOfLen(n) ==
    IF n = 0 THEN {""}
    ELSE Let(UrlsOfLen(n - 1), LAMBDA shorter : {u \o c : u \in shorter, c \in UrlChars})

Urls == UNION {UrlsOfLen(n) : n \in 0..MaxUrlLen}

\* The ways of writing the same path differently: a slash in front, a slash
\* at the end, a slash doubled, a query string or a fragment at the end.
Respellings(u) ==
    {u, "/" \o u, u \o "/", u \o "?a", u \o "#a", u \o "/?a#a"}
    \cup {SubSeq(u, 1, i) \o "/" \o SubSeq(u, i + 1, Len(u)) :
             i \in {j \in 1..Len(u) :
                       /\ SubSeq(u, j, j) = "/"
                       /\ ~contains(SubSeq(u, 1, j), "?")
                       /\ ~contains(SubSeq(u, 1, j), "#")}}

\* Two strings that spell one path, handed to CacheKey::new.
InitKey ==
    /\ pc = "key_input"
    /\ \E u \in Urls : \E v \in Respellings(u) : urls = <<u, v>>
    /\ keys = <<>>
    /\ pages = <<>> /\ cache_log = <<>> /\ got = <<>>
    /\ old = NoNode /\ new = NoNode /\ dom = NoNode
    /\ config = NoConfig /\ result = NoDiff
    /\ compared = <<>> /\ deepest = 0 /\ applied = 0
    /\ seq_old = <<>> /\ seq_new = <<>> /\ seq_result = NoResult
    /\ IdleId /\ IdleAux

RunCacheKeyNew ==
    /\ pc = "key_input"
    /\ keys' = <<CacheKey(urls[1]), CacheKey(urls[2])>>
    /\ pc' = "keyed"
    /\ UNCHANGED <<pages, cache_log, got, urls>>
    /\ UNCHANGED <<diff_vars_but_pc, id_vars, aux_vars>>

NextKey == RunCacheKeyNew

SpecKey == InitKey /\ [][NextKey]_vars

\* A path as the specification describes a key: no query string, no
\* fragment, one leading slash, no slash repeated, no trailing slash unless
\* the path is "/".
WellFormedKey(k) ==
    /\ \A i \in 1..Len(k) : SubSeq(k, i, i) \notin {"?", "#"}
    /\ Len(k) >= 1 /\ SubSeq(k, 1, 1) = "/"
    /\ \A i \in 1..(Len(k) - 1) : SubSeq(k, i, i + 1) # "//"
    /\ (SubSeq(k, Len(k), Len(k)) = "/" => k = "/")

\* C20: for every input, CacheKey::new yields a path without query string or
\* fragment, with exactly one leading slash, no repeated slashes and no
\* trailing slash unless it is the root "/"; two inputs that differ only in
\* those respects yield equal keys.
C20_KeysNormalized ==
    pc = "keyed" =>
        /\ WellFormedKey(keys[1])
        /\ WellFormedKey(keys[2])
        /\ keys[1] = keys[2]

\* Two different spellings, with repeated slashes and a query string, have
\* been given one key that is not the root.
C20_Witness ==
    /\ pc = "keyed"
    /\ urls[1] # urls[2]
    /\ contains(urls[1], "//")
    /\ contains(urls[2], "?")
    /\ keys[1] = keys[2]
    /\ keys[1] # "/"
    /\ keys[1] # urls[1]

-----------------------------------------------------------------------------
(* VdomCache (src/src/cache.rs): a map from CacheKey to Document            *)

\* VdomCache::new: no pages.
VdomCache == <<>>

\* VdomCache::get
get(p, key) == IF key \in DOMAIN p THEN Some(p[key]) ELSE None

\* An insert that leaves an entry that is already there.
insert_if_absent(p, key, doc) ==
    [pages |-> [k \in DOMAIN p \cup {key} |-> IF k \in DOMAIN p THEN p[k] ELSE doc],
     returned |-> get(p, key)]

\* VdomCache::insert: the entry is the new document; the old one is returned.
insert(p, key, doc) ==
    [pages |-> [k \in DOMAIN p \cup {key} |-> IF k = key THEN doc ELSE p[k]],
     returned |-> get(p, key)]

\* VdomCache::remove
remove(p, key) ==
    [pages |-> [k \in DOMAIN p \ {key} |-> p[k]],
     returned |-> get(p, key)]

\* VdomCache::clear
clear(p) == <<>>

MaxCalls == 3

\* The strings the callers make their keys from, and the documents they store.
CacheUrls == {"/a", "/a/", "b", "/b?a"}
Docs == {Root("html", <<>>, <<Text(t)>>) : t \in {"a", "b"}}

\* A call as the history keeps it.
Call(name, key, doc) == [call |-> name, key |-> key, doc |-> doc]

InitCache ==
    /\ pc = "ready"
    /\ pages = VdomCache
    /\ cache_log = <<>>
    /\ got = <<>>
    /\ urls = <<>> /\ keys = <<>>
    /\ old = NoNode /\ new = NoNode /\ dom = NoNode
    /\ config = NoConfig /\ result = NoDiff
    /\ compared = <<>> /\ deepest = 0 /\ applied = 0
    /\ seq_old = <<>> /\ seq_new = <<>> /\ seq_result = NoResult
    /\ IdleId /\ IdleAux

\* cache.insert(CacheKey::new(url), doc)
CallInsert ==
    /\ pc \in {"ready", "got"}
    /\ Len(cache_log) < MaxCalls
    /\ \E u \in CacheUrls, doc \in Docs :
          \E r \in {insert(pages, CacheKey(u), doc)} :
              /\ pages' = r.pages
              /\ got' = [call |-> "insert", key |-> CacheKey(u), value |-> r.returned]
              /\ cache_log' = Append(cache_log, Call("insert", CacheKey(u), doc))
    /\ pc' = "ready"
    /\ UNCHANGED <<urls, keys>>
    /\ UNCHANGED <<diff_vars_but_pc, id_vars, aux_vars>>

\* cache.remove(&CacheKey::new(url))
CallRemove ==
    /\ pc \in {"ready", "got"}
    /\ Len(cache_log) < MaxCalls
    /\ \E u \in CacheUrls :
          \E r \in {remove(pages, CacheKey(u))} :
              /\ pages' = r.pages
              /\ got' = [call |-> "remove", key |-> CacheKey(u), value |-> r.returned]
              /\ cache_log' = Append(cache_log, Call("remove", CacheKey(u), NoNode))
    /\ pc' = "ready"
    /\ UNCHANGED <<urls, keys>>
    /\ UNCHANGED <<diff_vars_but_pc, id_vars, aux_vars>>

\* cache.clear()
CallClear ==
    /\ pc \in {"ready", "got"}
    /\ Len(cache_log) < MaxCalls
    /\ pages' = clear(pages)
    /\ got' = [call |-> "clear", key |-> "", value |-> None]
    /\ cache_log' = Append(cache_log, Call("clear", "", NoNode))
    /\ pc' = "ready"
    /\ UNCHANGED <<urls, keys>>
    /\ UNCHANGED <<diff_vars_but_pc, id_vars, aux_vars>>

\* cache.get(&CacheKey::new(url))
CallGet ==
    /\ pc \in {"ready", "got"}
    /\ \E u \in CacheUrls :
          got' = [call |-> "get", key |-> CacheKey(u), value |-> get(pages, CacheKey(u))]
    /\ pc' = "got"
    /\ UNCHANGED <<pages, cache_log, urls, keys>>
    /\ UNCHANGED <<diff_vars_but_pc, id_vars, aux_vars>>

NextCache == CallInsert \/ CallRemove \/ CallClear \/ CallGet

SpecCache == InitCache /\ [][NextCache]_vars

\* The calls of the history that decide what is stored under k.
Deciding(log, k) ==
    {i \in 1..Len(log) : log[i].call = "clear" \/ log[i].key = k}

\* The document of the most recent insert under k that no later remove of k
\* and no later clear has taken away; absent when there is none.
LastStored(log, k) ==
    IF Deciding(log, k) = {} THEN None
    ELSE LET last == CHOOSE i \in Deciding(log, k) : \A j \in Deciding(log, k) : j <= i
         IN IF log[last].call = "insert" THEN Some(log[last].doc) ELSE None

\* C18: after any sequence of insert, remove and clear, get(k) returns the
\* document of the most recent insert under k not since removed or cleared,
\* and the absent value when there is none; no earlier document stored under
\* k is returned.
C18_GetReturnsLastInsert ==
    pc = "got" => got.value = LastStored(cache_log, got.key)

\* A lookup has returned the second of two different documents inserted
\* under its key.
C18_Witness ==
    /\ pc = "got"
    /\ \E i, j \in 1..Len(cache_log) :
          /\ i < j
          /\ cache_log[i].call = "insert" /\ cache_log[i].key = got.key
          /\ cache_log[j].call = "insert" /\ cache_log[j].key = got.key
          /\ cache_log[i].doc # cache_log[j].doc
          /\ got.value = Some(cache_log[j].doc)

-----------------------------------------------------------------------------
(* Rendering of patches (src/src/render.rs): each PatchOp becomes a Patch   *)
(* whose node payload is an HTML string                                      *)

DEFAULT_ID_ATTR == "data-tola-id"

\* RenderConfig::new
RenderConfig(emit_ids, minify) ==
    [emit_ids |-> emit_ids, minify |-> minify, id_attr_name |-> DEFAULT_ID_ATTR]

\* RenderConfig::id_attr
id_attr(rc) ==
    IF rc.id_attr_name = "" THEN DEFAULT_ID_ATTR ELSE rc.id_attr_name

\* format!("{:x}", raw): lowercase hexadecimal, no leading zeros.
RECURSIVE to_attr_value(_)
to_attr_value(raw) ==
    IF raw < 16 THEN SubSeq("0123456789abcdef", raw + 1, raw + 1)
    ELSE Let(raw \div 16, LAMBDA high : to_attr_value(high))
         \o SubSeq("0123456789abcdef", (raw % 16) + 1, (raw % 16) + 1)

\* escape_html: & < > are written as entities.
escape_html(s) ==
    Let(s, LAMBDA sv :
        For(LAMBDA acc, i :
                acc \o (IF SubSeq(sv, i, i) = "&" THEN "&amp;"
                        ELSE IF SubSeq(sv, i, i) = "<" THEN "&lt;"
                        ELSE IF SubSeq(sv, i, i) = ">" THEN "&gt;"
                        ELSE SubSeq(sv, i, i)),
            "", 1, Len(sv)))

\* escape_attr: & " < > are written as entities.
escape_attr(s) ==
    Let(s, LAMBDA sv :
        For(LAMBDA acc, i :
                acc \o (IF SubSeq(sv, i, i) = "&" THEN "&amp;"
                        ELSE IF SubSeq(sv, i, i) = "\"" THEN "&quot;"
                        ELSE IF SubSeq(sv, i, i) = "<" THEN "&lt;"
                        ELSE IF SubSeq(sv, i, i) = ">" THEN "&gt;"
                        ELSE SubSeq(sv, i, i)),
            "", 1, Len(sv)))

\* render_attrs
render_attrs(attrs) ==
    Fold(LAMBDA acc, a : acc \o " " \o a[1] \o "=\"" \o escape_attr(a[2]) \o "\"",
         "", attrs)

is_void_element(tag) ==
    tag \in {"area", "base", "br", "col", "embed", "hr", "img", "input", "link",
             "meta", "param", "source", "track", "wbr"}

RECURSIVE render_element(_, _)
RECURSIVE render_node(_, _)

\* render_element: what it pushes to the output.
render_element(e, rc) ==
    "<" \o e.tag \o render_attrs(e.attrs)
    \o (IF rc.emit_ids
        THEN " " \o id_attr(rc) \o "=\"" \o to_attr_value(e.id) \o "\""
        ELSE "")
    \o (IF is_void_element(e.tag) THEN " />"
        ELSE ">"
             \o Fold(LAMBDA acc, child : acc \o render_node(child, rc), "", e.children)
             \o "</" \o e.tag \o ">")

\* render_node: a raw text is written as it is, any other text escaped.
render_node(node, rc) ==
    IF node.kind = "element" THEN render_element(node, rc)
    ELSE IF node.text_kind = "Raw" THEN node.content
    ELSE escape_html(node.content)

render_children_to_string(children, rc) ==
    Fold(LAMBDA acc, child : acc \o render_node(child, rc), "", children)

\* render_patch_op: the Patch of each PatchOp.
render_patch_op(o, rc) ==
    CASE o.op = "Replace" ->
            [op |-> "Replace", target |-> o.target,
             html |-> render_element(o.element, rc)]
      [] o.op = "UpdateText" ->
            [op |-> "UpdateText", target |-> o.target, text |-> o.text]
      [] o.op = "ReplaceChildren" ->
            [op |-> "ReplaceChildren", target |-> o.target,
             html |-> render_children_to_string(o.children, rc), is_svg |-> o.is_svg]
      [] o.op = "Remove" -> [op |-> "Remove", target |-> o.target]
      [] o.op = "Insert" ->
            [op |-> "Insert", anchor |-> o.anchor, html |-> render_node(o.node, rc)]
      [] o.op = "Move" -> [op |-> "Move", target |-> o.target, to |-> o.to]
      [] o.op = "UpdateAttrs" ->
            [op |-> "UpdateAttrs", target |-> o.target, attrs |-> o.changes]

\* A rendering that returns the patches last to first.
render_patches_reversed(ops, rc) ==
    Reverse(Vec([i \in 1..Len(ops) |-> render_patch_op(ops[i], rc)]))

\* render_patches
render_patches(ops, rc) == Vec([i \in 1..Len(ops) |-> render_patch_op(ops[i], rc)])

\* Family "render": texts, escaped and raw, paragraphs, images, an svg and a
\* link whose contents hold the characters that rendering escapes.
RenderNodes ==
    {Text("a<b"), TextRaw("a<b"), P(1, "a"), P(1, "x&y"),
     Element(2, "img", <<<<"alt", "q\"r">>>>, <<>>),
     Element(2, "img", <<<<"alt", "s">>>>, <<>>),
     Element(3, "svg", <<>>, <<Text("m")>>),
     Element(3, "svg", <<>>, <<TextRaw("<g/>")>>),
     Element(4, "link", <<<<"href", "u">>>>, <<>>),
     Element(4, "link", <<<<"href", "v">>>>, <<>>)}
RenderTrees == {Root("body", <<>>, l) : l \in Lists(RenderNodes, 2)}

RenderConfigs ==
    {RenderConfig(TRUE, FALSE), RenderConfig(FALSE, TRUE),
     [emit_ids |-> TRUE, minify |-> FALSE, id_attr_name |-> ""],
     [emit_ids |-> TRUE, minify |-> FALSE, id_attr_name |-> "x"]}

\* A diff under the default configuration whose ops are then rendered.
InitRender ==
    /\ pc = "input"
    /\ old \in RenderTrees
    /\ new \in RenderTrees
    /\ config = DefaultConfig
    /\ result = NoDiff
    /\ compared = <<>>
    /\ deepest = 0
    /\ dom = NoNode
    /\ applied = 0
    /\ seq_old = <<>> /\ seq_new = <<>> /\ seq_result = NoResult
    /\ render_config \in RenderConfigs
    /\ patches = <<>>
    /\ pending = <<>> /\ completed = <<>> /\ pipeline_result = <<>>
    /\ IdleId /\ IdleCache

\* render_patches(&result.ops, &render_config) returns.
RenderPatches ==
    /\ pc = "diffed"
    /\ render_config # <<>>
    /\ patches' = render_patches(result.ops, render_config)
    /\ pc' = "rendered"
    /\ UNCHANGED <<render_config, pending, completed, pipeline_result>>
    /\ UNCHANGED <<diff_vars_but_pc, id_vars, cache_vars>>

NextRender == RunDiff \/ RenderPatches

SpecRender == InitRender /\ [][NextRender]_vars

\* The fields of a record other than its payload.
PlainFields(r) == DOMAIN r \ {"element", "children", "node", "html", "changes", "attrs"}

\* The Patch p is the PatchOp o with its node payload rendered.
SamePatch(o, p) ==
    /\ p.op = o.op
    /\ PlainFields(p) = PlainFields(o)
    /\ \A f \in PlainFields(o) : p[f] = o[f]
    /\ ("changes" \in DOMAIN o) = ("attrs" \in DOMAIN p)
    /\ "changes" \in DOMAIN o => p.attrs = o.changes
    /\ ("html" \in DOMAIN p) = (DOMAIN o \cap {"element", "children", "node"} # {})
    /\ "element" \in DOMAIN o => p.html = render_element(o.element, render_config)
    /\ "node" \in DOMAIN o => p.html = render_node(o.node, render_config)
    /\ "children" \in DOMAIN o =>
           p.html = render_children_to_string(o.children, render_config)

\* C22: render_patches returns as many patches as there are ops, in the same
\* order, each of the kind of its op with the same target, anchor, text,
\* attribute changes and is_svg flag, the node payload being replaced by its
\* HTML.
C22_PatchesMirrorOps ==
    pc = "rendered" =>
        /\ Len(patches) = Len(result.ops)
        /\ \A i \in 1..Len(patches) : SamePatch(result.ops[i], patches[i])

\* Two ops of different kinds, one of them carrying a node, have been
\* rendered, one of them carrying a raw text.
C22_Witness ==
    /\ pc = "rendered"
    /\ \E i \in 1..Len(patches) :
          patches[i].op = "ReplaceChildren" /\ patches[i].html = "<g/>"
    /\ Len(patches) >= 2
    /\ patches[1].op # patches[2].op
    /\ \E i \in 1..Len(patches) : "html" \in DOMAIN patches[i]
    /\ \E i \in 1..Len(patches) : "html" \notin DOMAIN patches[i]

-----------------------------------------------------------------------------
(* Two invocations of the constructors of StableId, one after the other    *)

\* Arguments of for_element: non-key attributes and children vary with the
\* key attributes fixed, and one tag is the marker of the text nodes.
AssignAttrs ==
    {<<>>, <<<<"class", "x">>>>, <<<<"id", "a">>>>,
     <<<<"class", "x">>, <<"id", "a">>>>, <<<<"id", "a">>, <<"class", "y">>>>}

AssignSeeds == {to_le_bytes(0), to_le_bytes(1)}

ElementCalls ==
    {[kind |-> "element", tag |-> t, attrs |-> a, children |-> c,
      occurrence |-> o, parent_seed |-> s] :
        t \in {"div", "__text__"}, a \in AssignAttrs,
        c \in {<<>>, <<to_le_bytes(1)>>}, o \in 0..MaxOccurrence, s \in AssignSeeds}

TextCalls ==
    {[kind |-> "text", tag |-> "__text__", attrs |-> <<>>, children |-> <<>>,
      occurrence |-> o, parent_seed |-> s] :
        o \in 0..MaxOccurrence, s \in AssignSeeds}

InitAssign ==
    /\ pc = "assign_first"
    /\ elem = <<>> /\ made = <<>>
    /\ raw_old = NoNode /\ raw_new = NoNode
    /\ indexed_old = NoNode /\ indexed_new = NoNode
    /\ old = NoNode /\ new = NoNode /\ dom = NoNode
    /\ config = NoConfig /\ result = NoDiff
    /\ compared = <<>> /\ deepest = 0 /\ applied = 0
    /\ seq_old = <<>> /\ seq_new = <<>> /\ seq_result = NoResult
    /\ IdleCache /\ IdleAux

AfterCall == IF pc = "assign_first" THEN "assign_second" ELSE "assigned"

\* One invocation of StableId::for_element; the arguments and the id
\* returned are kept.
CallForElement ==
    /\ pc \in {"assign_first", "assign_second"}
    /\ \E c \in ElementCalls :
          /\ elem' = Append(elem, c)
          /\ made' = Append(made, for_element(c.tag, c.attrs, c.children,
                                              c.occurrence, c.parent_seed))
    /\ pc' = AfterCall
    /\ UNCHANGED <<raw_old, raw_new, indexed_old, indexed_new>>
    /\ UNCHANGED <<diff_vars_but_pc, cache_vars, aux_vars>>

\* One invocation of StableId::for_text.
CallForText ==
    /\ pc \in {"assign_first", "assign_second"}
    /\ \E c \in TextCalls :
          /\ elem' = Append(elem, c)
          /\ made' = Append(made, for_text(c.occurrence, c.parent_seed))
    /\ pc' = AfterCall
    /\ UNCHANGED <<raw_old, raw_new, indexed_old, indexed_new>>
    /\ UNCHANGED <<diff_vars_but_pc, cache_vars, aux_vars>>

NextAssign == CallForElement \/ CallForText

SpecAssign == InitAssign /\ [][NextAssign]_vars

\* What the specification takes the id to be a function of.
AssignInputs(c) == <<c.parent_seed, c.tag, KeyPairs(c.attrs), c.occurrence>>

\* C23: two invocations of the Identity Assigner with identical parent
\* seed, tag or text marker, key attributes and occurrence return the same
\* StableId, whichever is made first and whatever the other arguments (the
\* attributes of other names, the children) and the calls made before.
C23_SameInputsSameId ==
    \A i, j \in 1..Len(made) :
        AssignInputs(elem[i]) = AssignInputs(elem[j]) => made[i] = made[j]

\* Two invocations that agree on the four inputs and differ in the rest
\* have been made.
C23_Witness ==
    /\ pc = "assigned"
    /\ AssignInputs(elem[1]) = AssignInputs(elem[2])
    /\ elem[1].children # elem[2].children
    /\ elem[1].attrs # elem[2].attrs
    /\ KeyPairs(elem[1].attrs) # <<>>
    /\ made[1] = made[2]

-----------------------------------------------------------------------------
(* AsyncPipeline (src/src/transform/pipeline.rs): pending validations      *)

MaxValidators == 3

\* A pending validation: the future of one validator, named by its place
\* in the list, with the result it resolves to.
PendingValidation(fails) == [fails |-> fails]

\* AsyncPipeline::from_pipeline: nothing is pending.
InitPipeline ==
    /\ pc = "building"
    /\ pending = <<>> /\ completed = <<>> /\ pipeline_result = <<>>
    /\ render_config = <<>> /\ patches = <<>>
    /\ old = NoNode /\ new = NoNode /\ dom = NoNode
    /\ config = NoConfig /\ result = NoDiff
    /\ compared = <<>> /\ deepest = 0 /\ applied = 0
    /\ seq_old = <<>> /\ seq_new = <<>> /\ seq_result = NoResult
    /\ IdleId /\ IdleCache

\* AsyncPipeline::validate: the future is pushed, not polled yet.
Validate ==
    /\ pc = "building"
    /\ Len(pending) < MaxValidators
    /\ \E fails \in BOOLEAN : pending' = Append(pending, PendingValidation(fails))
    /\ UNCHANGED <<pc, completed, pipeline_result, render_config, patches>>
    /\ UNCHANGED <<diff_vars_but_pc, id_vars, cache_vars>>

\* The results in the order of the pending list, and the first Err of them.
first_err(results) ==
    For(LAMBDA acc, i : IF acc = 0 /\ results[i].fails THEN i ELSE acc,
        0, 1, Len(results))

\* finish_fail_fast, up to its suspension: Ok at once if nothing is
\* pending, else join_all(self.pending) is awaited.
FinishFailFast ==
    /\ pc = "building"
    /\ IF pending = <<>>
       THEN pc' = "returned" /\ pipeline_result' = [ok |-> TRUE, error |-> 0]
       ELSE pc' = "joining" /\ UNCHANGED pipeline_result
    /\ UNCHANGED <<pending, completed, render_config, patches>>
    /\ UNCHANGED <<diff_vars_but_pc, id_vars, cache_vars>>

\* One of the joined futures resolves; the futures resolve in any order.
Resolve ==
    /\ pc = "joining"
    /\ \E i \in 1..Len(pending) :
          /\ \A j \in 1..Len(completed) : completed[j] # i
          /\ completed' = Append(completed, i)
    /\ UNCHANGED <<pc, pending, pipeline_result, render_config, patches>>
    /\ UNCHANGED <<diff_vars_but_pc, id_vars, cache_vars>>

\* join_all is ready once every future has resolved; finish_fail_fast
\* resumes, walks the results in the order of the pending list and returns
\* the first Err, or Ok.
JoinAllReady ==
    /\ pc = "joining"
    /\ Len(completed) = Len(pending)
    /\ \E e \in {first_err(pending)} :
          pipeline_result' = [ok |-> e = 0, error |-> e]
    /\ pc' = "returned"
    /\ UNCHANGED <<pending, completed, render_config, patches>>
    /\ UNCHANGED <<diff_vars_but_pc, id_vars, cache_vars>>

NextPipeline == Validate \/ FinishFailFast \/ Resolve \/ JoinAllReady

SpecPipeline == InitPipeline /\ [][NextPipeline]_vars

\* C24: finish_fail_fast stops as soon as a validator fails: when it has
\* returned an error, that error is the one of the validation that failed
\* first, and no validation was waited for after that failure.
C24_FailFastStopsAtFirstFailure ==
    (pc = "returned" /\ ~pipeline_result.ok) =>
        \E f \in 1..Len(completed) :
            /\ pending[completed[f]].fails
            /\ \A g \in 1..(f - 1) : ~pending[completed[g]].fails
            /\ pipeline_result.error = completed[f]
            /\ Len(completed) = f

-----------------------------------------------------------------------------
(* Properties of the ops on text nodes, of the op count and of the edits   *)

\* C25: no op of a returned ops list inserts, removes or moves a text node
\* by itself: the node of every Insert is an element, and the target of
\* every Remove and Move is an element of the old tree.
C25_NoOpOnTextNodeAlone ==
    Returned =>
        \A i \in 1..Len(result.ops) :
            /\ result.ops[i].op = "Insert" => IsElement(result.ops[i].node)
            /\ result.ops[i].op \in {"Remove", "Move"}
                   => result.ops[i].target \in ids_inside(old)

\* C26: the number of ops is looked at before every op is appended, so a
\* returned ops list holds max_ops + 1 ops at most.
C26_OpsWithinMaxOpsPlusOne ==
    Returned => Len(result.ops) <= config.max_ops + 1

\* The Keep edits of the result of diff_sequences, as positions of the list.
Keeps == {i \in 1..Len(seq_result.edits) : seq_result.edits[i].kind = "Keep"}

\* C27: in every result of diff_sequences each Keep (old_idx, new_idx) pairs
\* equal ids, old[old_idx] = new[new_idx], and of two Keeps the one with the
\* smaller old_idx has the smaller new_idx: the Keeps are an order-preserving
\* common subsequence of old and new.
C27_KeepsAreCommonSubsequence ==
    pc = "seq_done" =>
        /\ \A i \in Keeps :
              At(seq_old, seq_result.edits[i].old_idx)
                  = At(seq_new, seq_result.edits[i].new_idx)
        /\ \A i, j \in Keeps :
              seq_result.edits[i].old_idx < seq_result.edits[j].old_idx
                  => seq_result.edits[i].new_idx < seq_result.edits[j].new_idx
        /\ \A i, j \in Keeps :
              seq_result.edits[i].old_idx = seq_result.edits[j].old_idx => i = j

\* A result of the Myers search, past the limit of the small table, that
\* keeps some ids and not all.
C27_Witness ==
    /\ pc = "seq_done"
    /\ Len(seq_old) > SMALL_DP_LIMIT
    /\ Cardinality(Keeps) >= 2
    /\ Cardinality(Keeps) < Len(seq_old)
    /\ \E i \in Keeps : seq_result.edits[i].old_idx # seq_result.edits[i].new_idx

\* compute_lcs of src/src/lcs.rs: the table dp[0..n][0..m] filled row by row,
\* then the backtracking loop from (n, m), which runs n + m times at most;
\* the pairs are pushed last first and reversed.
compute_lcs(olds, news) ==
    LET n == Len(olds)
        m == Len(news)
        Cell(rows, row, i, j) ==
            IF At(olds, i - 1) = At(news, j - 1)
            THEN At(rows[Len(rows)], j - 1) + 1
            ELSE Max(At(rows[Len(rows)], j), At(row, j - 1))
        RowStep(rows, i) ==
            Append(rows, For(LAMBDA row, j : Append(row, Cell(rows, row, i, j)),
                             <<0>>, 1, m))
        Back(dp, st, k) ==
            IF ~(st.i > 0 /\ st.j > 0) THEN st
            ELSE IF At(olds, st.i - 1) = At(news, st.j - 1)
                 THEN [i |-> st.i - 1, j |-> st.j - 1,
                       lcs |-> Append(st.lcs, <<st.i - 1, st.j - 1>>)]
            ELSE IF At(At(dp, st.i - 1), st.j) > At(At(dp, st.i), st.j - 1)
                 THEN [st EXCEPT !.i = @ - 1]
            ELSE [st EXCEPT !.j = @ - 1]
    IN Let(For(RowStep, <<Vec([j \in 1..(m + 1) |-> 0])>>, 1, n), LAMBDA dp :
           Reverse(For(LAMBDA st, k : Back(dp, st, k),
                       [i |-> n, j |-> m, lcs |-> <<>>], 1, n + m).lcs))

\* C28: when the Myers search does not abort, diff_sequences returns as many
\* Keep edits as a longest common subsequence of old and new is long: the
\* count compute_lcs of lcs.rs finds for the same sequences.
C28_KeepCountIsLcsLength ==
    (pc = "seq_done" /\ ~myers_aborts(seq_old, seq_new)) =>
        Cardinality(Keeps) = Len(compute_lcs(seq_old, seq_new))

\* A result of the Myers search: the sequences are past the limit of the
\* small table and share no prefix and no suffix, an id is taken twice on
\* the old side, and the result keeps some ids and not all.
C28_Witness ==
    /\ pc = "seq_done"
    /\ ~myers_aborts(seq_old, seq_new)
    /\ Len(seq_old) > SMALL_DP_LIMIT /\ Len(seq_new) > SMALL_DP_LIMIT
    /\ seq_old[1] # seq_new[1]
    /\ seq_old[Len(seq_old)] # seq_new[Len(seq_new)]
    /\ Cardinality(Keeps) >= 2
    /\ Cardinality(Keeps) < Min(Len(seq_old), Len(seq_new))
    /\ \E i, j \in 1..Len(seq_old) : i # j /\ seq_old[i] = seq_old[j]

\* The attributes of an element as a set of (name, value), and its names.
AttrSet(e) == {e.attrs[k] : k \in 1..Len(e.attrs)}
AttrNames(e) == {e.attrs[k][1] : k \in 1..Len(e.attrs)}

\* The values an element gives a name: none, or one.
ValuesOf(e, name) == {a[2] : a \in {b \in AttrSet(e) : b[1] = name}}

\* The compared pairs of one tag that are neither a link whose href differs
\* nor a script whose src differs.
PlainAttrPairs ==
    {i \in 1..Len(compared) :
        /\ compared[i][1].tag = compared[i][2].tag
        /\ ~(compared[i][1].tag = "link"
             /\ ValuesOf(compared[i][1], "href") # ValuesOf(compared[i][2], "href"))
        /\ ~(compared[i][1].tag = "script"
             /\ ValuesOf(compared[i][1], "src") # ValuesOf(compared[i][2], "src"))}

\* The changes the specification expects for a pair: (name, new value) for
\* the attributes added or changed in new, (name, none) for those of old only.
ExpectedChanges(olde, newe) ==
    {<<a[1], Some(a[2])>> : a \in AttrSet(newe) \ AttrSet(olde)}
    \cup {<<name, None>> : name \in AttrNames(olde) \ AttrNames(newe)}

\* The UpdateAttrs ops on an element.
UpdateAttrsOn(id) == OpsWhere(LAMBDA o : o.op = "UpdateAttrs" /\ o.target = id)

\* C29: for a compared pair of one tag, no link with changed href and no
\* script with changed src, the diff emits an UpdateAttrs on the old element
\* exactly when the two sets of (name, value) differ, and its change list
\* holds (name, new value) for exactly the attributes added or changed in
\* new and (name, none) for exactly the attributes of old only, each once.
C29_UpdateAttrsIsAttrDifference ==
    Returned =>
        \A i \in PlainAttrPairs :
            IF AttrSet(compared[i][1]) = AttrSet(compared[i][2])
            THEN UpdateAttrsOn(compared[i][1].id) = {}
            ELSE /\ Cardinality(UpdateAttrsOn(compared[i][1].id)) = 1
                 /\ \A u \in UpdateAttrsOn(compared[i][1].id) :
                       /\ Range(result.ops[u].changes)
                              = ExpectedChanges(compared[i][1], compared[i][2])
                       /\ Len(result.ops[u].changes)
                              = Cardinality(ExpectedChanges(compared[i][1], compared[i][2]))

\* The diff has compared a pair in which one attribute is changed or added
\* and another removed, and has emitted the UpdateAttrs holding both.
C29_Witness ==
    /\ Returned
    /\ \E i \in PlainAttrPairs :
          /\ \E u \in UpdateAttrsOn(compared[i][1].id) :
                /\ \E c \in Range(result.ops[u].changes) : c[2] = None
                /\ \E c \in Range(result.ops[u].changes) : c[2] # None

HasText(list) == \E k \in 1..Len(list) : IsText(list[k])
SingleText(list) == Len(list) = 1 /\ IsText(list[1])

\* The compared pairs of one tag other than svg whose child lists are both
\* non-empty and hold a text node.
TextListPairs ==
    {i \in 1..Len(compared) :
        /\ compared[i][1].tag = compared[i][2].tag
        /\ compared[i][1].tag # "svg"
        /\ compared[i][1].children # <<>>
        /\ compared[i][2].children # <<>>
        /\ HasText(compared[i][1].children) \/ HasText(compared[i][2].children)}

\* Those of them the single-text-child fast path does not take.
MixedListPairs ==
    {i \in TextListPairs :
        ~(SingleText(compared[i][1].children) /\ SingleText(compared[i][2].children))}

\* The two lists differ in length, in element/text shape at a position, or
\* in the content of a text position.
ListsDiffer(olds, news) ==
    \/ Len(olds) # Len(news)
    \/ \E k \in 1..Len(olds) : olds[k].kind # news[k].kind
    \/ \E k \in 1..Len(olds) : IsText(olds[k]) /\ olds[k].content # news[k].content

ReplaceChildrenOn(id) ==
    OpsWhere(LAMBDA o : o.op = "ReplaceChildren" /\ o.target = id)

\* The ops that change the child list of a pair: a ReplaceChildren on the
\* parent, a Remove or Move of a child, an Insert anchored in the list.
ListOps(olde, newe) ==
    OpsWhere(LAMBDA o :
        \/ o.op = "ReplaceChildren" /\ o.target = olde.id
        \/ o.op \in {"Remove", "Move"} /\ o.target \in ElementIds(olde.children)
        \/ o.op = "Insert" /\ (o.anchor = FirstChildOf(olde.id)
                               \/ o.anchor.id \in ElementIds(newe.children)))

\* What the claim states of one pair.
MixedListRule(olde, newe) ==
    IF ListsDiffer(olde.children, newe.children)
    THEN /\ Cardinality(ReplaceChildrenOn(olde.id)) = 1
         /\ ListOps(olde, newe) = ReplaceChildrenOn(olde.id)
         /\ \A r \in ReplaceChildrenOn(olde.id) :
               result.ops[r].children = newe.children /\ ~result.ops[r].is_svg
    ELSE /\ ListOps(olde, newe) = {}
         /\ \A k \in 1..Len(olde.children) :
               IsElement(olde.children[k])
                   => \E c \in 1..Len(compared) :
                          compared[c] = <<olde.children[k], newe.children[k]>>

\* C30: for a non-svg parent whose child lists are both non-empty and hold
\* a text node, the diff emits exactly one ReplaceChildren on the parent if
\* the lists differ in length, shape or the content of a text position, and
\* otherwise no op for the list, recursing into the element pairs. Stated
\* of the pairs that reach the rule: two lists of one text node each take
\* the single-text-child fast path before it.
C30_MixedListsReplaceChildren ==
    Returned =>
        \A i \in MixedListPairs : MixedListRule(compared[i][1], compared[i][2])

=============================================================================
